---- MODULE Spec2Model ----
(***************************************************************************)
(* Model of the chat router of friction-ai (src/unnamed/part_000): the     *)
(* request handler handleChat with its identity verifier                   *)
(* (getVerifiedGoogleUser, hashShort), its admission controller            *)
(* (enforceLimits, bumpCounter, dayStampSydney, secondsUntilSydneyMidnight)*)
(* and the key-value store FRICTION_KV they share.                         *)
(*                                                                         *)
(* JavaScript strings are sequences of one-character strings, so that      *)
(* split, Number, parseInt, trim and charCodeAt are computed, not assumed. *)
(* Date.now() is the variable now, in milliseconds since the instant       *)
(* 2026-04-05 00:00:00 Australia/Sydney (daylight time), the local         *)
(* midnight that begins the day on which Sydney leaves daylight saving.    *)
(***************************************************************************)
EXTENDS Integers, Sequences, FiniteSets, TLC

VARIABLES
    now,        \* Date.now(), ms since the model's clock origin
    kv,         \* env.FRICTION_KV: key -> [val, exp]
    aiEnabled,  \* the value of env.AI_ENABLED
    last,       \* what the most recent invocation of the handler did
    run,        \* per user: requests counted since a burst record was absent
    denial,     \* per user: the pending rate-limit denial and its retry hint
    dayRun,     \* per user: requests that reached the daily check today
    race,       \* bumpCounter calls in flight on one key, and their history
    seen,       \* per user: the streak of requests less than a window apart,
                \* the time of the last one, the time of the last verification
    ix          \* the deployment of src/src/index.js: whether its store is
                \* bound, its handlers in flight, and their history

vars == <<now, kv, aiEnabled, last, run, denial, dayRun, race, seen, ix>>

----------------------------------------------------------------------------
(* Numbers and strings *)

Max(a, b) == IF a >= b THEN a ELSE b

\* Math.ceil(a / b) for b > 0 and any integer a
Ceil(a, b) == -((-a) \div b)

Digits == <<"0", "1", "2", "3", "4", "5", "6", "7", "8", "9">>

DigitVal(c) == CHOOSE d \in 0..9 : Digits[d + 1] = c

IsDigit(c) == \E d \in 0..9 : Digits[d + 1] = c

\* String(n) / `${n}` for an integer n >= 0
RECURSIVE ToStr(_)
ToStr(n) == IF n < 10 THEN <<Digits[n + 1]>>
            ELSE ToStr(n \div 10) \o <<Digits[(n % 10) + 1]>>

NaN == -1

\* the value of a run of decimal digits
RECURSIVE DigitsVal(_)
DigitsVal(s) == IF s = <<>> THEN 0
                ELSE DigitsVal(SubSeq(s, 1, Len(s) - 1)) * 10 + DigitVal(s[Len(s)])

\* Number(s) on the strings the counters hold: "" is 0, digits are their
\* value, anything else is NaN
Number(s) == IF \A i \in 1..Len(s) : IsDigit(s[i]) THEN DigitsVal(s) ELSE NaN

\* the longest prefix of s made of digits
RECURSIVE DigitPrefix(_)
DigitPrefix(s) == IF s = <<>> \/ ~IsDigit(Head(s)) THEN <<>>
                  ELSE <<Head(s)>> \o DigitPrefix(Tail(s))

\* parseInt(s): the leading digits, NaN when there are none
parseInt(s) == IF DigitPrefix(s) = <<>> THEN NaN ELSE DigitsVal(DigitPrefix(s))

\* s.split(sep): the pieces of s between occurrences of the character sep
RECURSIVE Split(_, _)
Split(s, sep) ==
    IF \A i \in 1..Len(s) : s[i] # sep THEN <<s>>
    ELSE LET i == CHOOSE j \in 1..Len(s) :
                      s[j] = sep /\ \A k \in 1..(j - 1) : s[k] # sep
         IN <<SubSeq(s, 1, i - 1)>> \o Split(SubSeq(s, i + 1, Len(s)), sep)

\* parts[i] || dflt: a missing or empty piece gives the default
PartOr(parts, i, dflt) == IF i <= Len(parts) /\ parts[i] # <<>> THEN parts[i] ELSE dflt

----------------------------------------------------------------------------
(* The clock and the Sydney calendar *)

HourMs == 60 * 60 * 1000

DayMs == 24 * HourMs

\* Sydney leaves daylight saving at 03:00 local on the first day of the model:
\* wall clocks go back one hour, three hours after the clock origin.
DstEnd == 3 * HourMs

\* Intl.DateTimeFormat(..., {timeZone: "Australia/Sydney"}): the wall-clock
\* time at instant t, in ms since local midnight of the first day
LocalMs(t) == IF t < DstEnd THEN t ELSE t - HourMs

SydneyDates == <<"2026-04-05", "2026-04-06", "2026-04-07", "2026-04-08">>

dayStampSydney(t) == SydneyDates[(LocalMs(t) \div DayMs) + 1]

\* the formatted local time has whole seconds; it is re-read as if it were UTC
\* and the next 24:00:00 of that date is taken
secondsUntilSydneyMidnight(t) ==
    LET localNow == (LocalMs(t) \div 1000) * 1000
        next == ((localNow \div DayMs) + 1) * DayMs
    IN Max(60, Ceil(next - localNow, 1000))

\* the clock origin is 13:00:00 UTC of 2026-04-04
UtcOriginMs == 13 * HourMs

UtcDates == <<"2026-04-04", "2026-04-05", "2026-04-06", "2026-04-07", "2026-04-08">>

\* new Date().toISOString().split("T")[0]
isoToday(t) == UtcDates[((t + UtcOriginMs) \div DayMs) + 1]

----------------------------------------------------------------------------
(* The key-value store: get, put with expirationTtl, eviction *)

NoExpiry == -1

Null == <<>>

Expired(e, t) == e.exp # NoExpiry /\ t >= e.exp

Has(store, key, t) == key \in DOMAIN store /\ ~Expired(store[key], t)

\* kv.get(key): the stored string, or null. null and "" are both falsy and
\* every caller tests only truthiness, so both are the empty sequence.
KvGet(store, key, t) == IF Has(store, key, t) THEN store[key].val ELSE Null

\* kv.put(key, val, {expirationTtl: ttl})
KvPut(store, key, val, ttl, t) ==
    [k \in DOMAIN store \cup {key} |->
        IF k = key
        THEN [val |-> val, exp |-> IF ttl = NoExpiry THEN NoExpiry ELSE t + ttl * 1000]
        ELSE store[k]]

\* the store drops the keys whose expiration has passed
Evict(store, t) == [k \in {x \in DOMAIN store : ~Expired(store[x], t)} |-> store[k]]

----------------------------------------------------------------------------
(* hashShort: 32-bit FNV-1a, as a pair of 16-bit halves <<hi, lo>> *)

Half == 65536

RECURSIVE Xor(_, _)
Xor(a, b) == IF a = 0 THEN b
             ELSE IF b = 0 THEN a
             ELSE (((a % 2) + (b % 2)) % 2) + 2 * Xor(a \div 2, b \div 2)

Chars == <<"g", "w", "z", "x", "1", "6", "c", "d", "a", "m", "n", "b", "@", "A", "X">>

Codes == <<103, 119, 122, 120, 49, 54, 99, 100, 97, 109, 110, 98, 64, 65, 88>>

\* str.charCodeAt(i)
charCode(c) == Codes[CHOOSE i \in 1..Len(Chars) : Chars[i] = c]

\* Math.imul(h, 16777619): 16777619 = 256 * 65536 + 403
imulPrime(h) ==
    LET low == h[2] * 403
    IN <<(h[1] * 403 + h[2] * 256 + (low \div Half)) % Half, low % Half>>

\* 2166136261 = 33052 * 65536 + 40389
FnvBasis == <<33052, 40389>>

RECURSIVE fnv(_, _)
fnv(h, str) == IF str = <<>> THEN h
               ELSE fnv(imulPrime(<<h[1], Xor(h[2], charCode(Head(str)))>>), Tail(str))

HexDigits == <<"0", "1", "2", "3", "4", "5", "6", "7", "8", "9",
               "a", "b", "c", "d", "e", "f">>

\* n.toString(16) for n >= 0
RECURSIVE Hex(_)
Hex(n) == IF n < 16 THEN <<HexDigits[n + 1]>>
          ELSE Hex(n \div 16) \o <<HexDigits[(n % 16) + 1]>>

\* the low half after a non-zero high half keeps its leading zeros
Hex4(n) == <<HexDigits[(n \div 4096) + 1], HexDigits[((n \div 256) % 16) + 1],
             HexDigits[((n \div 16) % 16) + 1], HexDigits[(n % 16) + 1]>>

hashShort(str) ==
    LET h == fnv(FnvBasis, str)
    IN IF h[1] = 0 THEN Hex(h[2]) ELSE Hex(h[1]) \o Hex4(h[2])

----------------------------------------------------------------------------
(* Deployment configuration and the external identity provider *)

GOOGLE_CLIENT_ID == "client-A"

ADMIN_EMAIL == <<"A", "@", "x">>

PAID_MODELS == {"claude", "gpt", "grok", "perplexity"}

FREE_MODELS == {"gemini"}

Upper == <<"A", "B", "X">>

Lower == <<"a", "b", "x">>

\* str.toLowerCase()
toLowerCase(str) ==
    [i \in 1..Len(str) |->
        IF \E j \in 1..Len(Upper) : Upper[j] = str[i]
        THEN Lower[CHOOSE j \in 1..Len(Upper) : Upper[j] = str[i]]
        ELSE str[i]]

\* the credentials that callers present
BobToken == <<"g", "w", "z", "x">>

MalloryToken == <<"1", "6", "c", "d">>

AdminToken == <<"a", "d", "m", "n">>

JunkToken == <<"a", "a">>

\* a credential of Bob's issued half an hour before the clock origin
AgedToken == <<"g", "1", "6", "x">>

\* the exp claim of a credential, as a time of the model's clock; the other
\* credentials are taken to be fresh for as long as the model runs
ExpiresAt(idToken) == IF idToken = AgedToken THEN 30 * 60 * 1000 ELSE -1

\* https://oauth2.googleapis.com/tokeninfo?id_token=...: what Google answers
\* for each credential. MalloryToken is a genuine Google credential issued to
\* another application; JunkToken is not a credential at all.
tokeninfo(idToken) ==
    CASE idToken = BobToken ->
           [ok |-> TRUE, aud |-> "client-A", sub |-> "bob", email |-> <<"b", "@", "x">>]
      [] idToken = AdminToken ->
           [ok |-> TRUE, aud |-> "client-A", sub |-> "root", email |-> <<"a", "@", "X">>]
      [] idToken = AgedToken ->
           [ok |-> TRUE, aud |-> "client-A", sub |-> "bob", email |-> <<"b", "@", "x">>]
      [] idToken = MalloryToken ->
           [ok |-> TRUE, aud |-> "client-B", sub |-> "mallory", email |-> <<"m", "@", "x">>]
      [] OTHER ->
           [ok |-> FALSE, aud |-> "", sub |-> "", email |-> <<>>]

----------------------------------------------------------------------------
(* getVerifiedGoogleUser *)

TokenTtl == 3600

NoAuth == [ok |-> FALSE, status |-> 0, threw |-> FALSE, userId |-> "", email |-> <<>>,
           isAdmin |-> FALSE, cacheHit |-> FALSE, idpCalled |-> FALSE]

\* /^Bearer\s+(.+)$/i on the Authorization header, then trim
bearerToken(authz) == IF authz.scheme \in {"Bearer", "bearer"} THEN authz.cred ELSE <<>>

\* the cache test of the verifier: an entry with a subject and the audience
\* of this deployment
cacheUsable(cached, clientId) == cached.sub # "" /\ cached.aud = clientId

\* the test on Google's answer without its comparison of the audience
tokenValidAnyAudience(res, clientId) ==
    res.ok /\ res.sub # "" /\ res.email # <<>>

\* the test on Google's answer
tokenValid(res, clientId) ==
    res.ok /\ res.aud = clientId /\ res.sub # "" /\ res.email # <<>>

\* Google's answer at time t: it rejects a credential whose exp has passed
tokeninfoAt(idToken, t) ==
    IF ExpiresAt(idToken) # -1 /\ t >= ExpiresAt(idToken)
    THEN [ok |-> FALSE, aud |-> "", sub |-> "", email |-> <<>>]
    ELSE tokeninfo(idToken)

\* the verifier renewing the cache entry whenever it is used
getVerifiedGoogleUserSliding(store, req, t) ==
    LET clientId == GOOGLE_CLIENT_ID
        idToken == bearerToken(req.authz)
        cacheKey == <<"tok:">> \o hashShort(idToken)
        hit == "tokGet" \notin req.fail /\ Has(store, cacheKey, t)
        data == tokeninfoAt(idToken, t)
        isAdmin == toLowerCase(data.email) = toLowerCase(ADMIN_EMAIL)
    IN  IF idToken = <<>>
        THEN [NoAuth EXCEPT !.status = 401] @@ [kv |-> store]
        ELSE IF hit /\ cacheUsable(store[cacheKey].val, clientId)
        THEN [NoAuth EXCEPT !.ok = TRUE, !.userId = store[cacheKey].val.sub,
                            !.email = store[cacheKey].val.email,
                            !.isAdmin = store[cacheKey].val.isAdmin,
                            !.cacheHit = TRUE]
             @@ [kv |-> KvPut(store, cacheKey, store[cacheKey].val, TokenTtl, t)]
        ELSE IF ~req.idpUp
        THEN [NoAuth EXCEPT !.threw = TRUE] @@ [kv |-> store]
        ELSE IF ~tokenValid(data, clientId)
        THEN [NoAuth EXCEPT !.status = 401, !.idpCalled = TRUE] @@ [kv |-> store]
        ELSE IF "tokPut" \in req.fail
        THEN [NoAuth EXCEPT !.threw = TRUE, !.idpCalled = TRUE] @@ [kv |-> store]
        ELSE [NoAuth EXCEPT !.ok = TRUE, !.userId = data.sub, !.email = data.email,
                            !.isAdmin = isAdmin, !.idpCalled = TRUE]
             @@ [kv |-> KvPut(store, cacheKey,
                              [sub |-> data.sub, aud |-> data.aud, email |-> data.email,
                               isAdmin |-> isAdmin],
                              TokenTtl, t)]

getVerifiedGoogleUser(store, req, t) ==
    LET clientId == GOOGLE_CLIENT_ID
        idToken == bearerToken(req.authz)
        cacheKey == <<"tok:">> \o hashShort(idToken)
        hit == "tokGet" \notin req.fail /\ Has(store, cacheKey, t)
        data == tokeninfoAt(idToken, t)
        isAdmin == toLowerCase(data.email) = toLowerCase(ADMIN_EMAIL)
    IN  IF idToken = <<>>
        THEN [NoAuth EXCEPT !.status = 401] @@ [kv |-> store]
        ELSE IF hit /\ cacheUsable(store[cacheKey].val, clientId)
        THEN [NoAuth EXCEPT !.ok = TRUE, !.userId = store[cacheKey].val.sub,
                            !.email = store[cacheKey].val.email,
                            !.isAdmin = store[cacheKey].val.isAdmin,
                            !.cacheHit = TRUE] @@ [kv |-> store]
        ELSE IF ~req.idpUp
        THEN [NoAuth EXCEPT !.threw = TRUE] @@ [kv |-> store]
        ELSE IF ~tokenValid(data, clientId)
        THEN [NoAuth EXCEPT !.status = 401, !.idpCalled = TRUE] @@ [kv |-> store]
        ELSE IF "tokPut" \in req.fail
        THEN [NoAuth EXCEPT !.threw = TRUE, !.idpCalled = TRUE] @@ [kv |-> store]
        ELSE [NoAuth EXCEPT !.ok = TRUE, !.userId = data.sub, !.email = data.email,
                            !.isAdmin = isAdmin, !.idpCalled = TRUE]
             @@ [kv |-> KvPut(store, cacheKey,
                              [sub |-> data.sub, aud |-> data.aud, email |-> data.email,
                               isAdmin |-> isAdmin],
                              TokenTtl, t)]

----------------------------------------------------------------------------
(* bumpCounter, trackRateLimitEvent, enforceLimits *)

\* `${count}|${start}`
counterRecord(count, start) == ToStr(count) \o <<"|">> \o ToStr(start)

\* bumpCounter without the Math.max(1, ...) of line 543
bumpCounterNoFloor(store, key, ttlSeconds, t, getFails, putFails) ==
    LET raw == IF getFails THEN Null ELSE KvGet(store, key, t)
        parts == Split(raw, "|")
        count0 == IF raw # Null THEN Number(PartOr(parts, 1, <<"0">>)) ELSE 0
        start == IF raw # Null THEN Number(PartOr(parts, 2, ToStr(t))) ELSE t
        count == count0 + 1
        windowMs == ttlSeconds * 1000
        elapsed == t - start
        retryAfter == Ceil(windowMs - elapsed, 1000)
    IN  [count |-> count, retryAfter |-> retryAfter, threw |-> putFails,
         kv |-> IF putFails THEN store
                ELSE KvPut(store, key, counterRecord(count, start), ttlSeconds, t)]

\* bumpCounter without the increment at line 534
bumpCounterNoIncrement(store, key, ttlSeconds, t, getFails, putFails) ==
    LET raw == IF getFails THEN Null ELSE KvGet(store, key, t)
        parts == Split(raw, "|")
        count == IF raw # Null THEN Number(PartOr(parts, 1, <<"0">>)) ELSE 0
        start == IF raw # Null THEN Number(PartOr(parts, 2, ToStr(t))) ELSE t
        windowMs == ttlSeconds * 1000
        elapsed == t - start
        retryAfter == Max(1, Ceil(windowMs - elapsed, 1000))
    IN  [count |-> count, retryAfter |-> retryAfter, threw |-> putFails,
         kv |-> IF putFails THEN store
                ELSE KvPut(store, key, counterRecord(count, start), ttlSeconds, t)]

\* bumpCounter leaving the expiration of a record it found as it was
bumpCounterKeepsExpiry(store, key, ttlSeconds, t, getFails, putFails) ==
    LET raw == IF getFails THEN Null ELSE KvGet(store, key, t)
        parts == Split(raw, "|")
        count0 == IF raw # Null THEN Number(PartOr(parts, 1, <<"0">>)) ELSE 0
        start == IF raw # Null THEN Number(PartOr(parts, 2, ToStr(t))) ELSE t
        count == count0 + 1
        retryAfter == Max(1, Ceil(ttlSeconds * 1000 - (t - start), 1000))
    IN  [count |-> count, retryAfter |-> retryAfter, threw |-> putFails,
         kv |-> IF putFails THEN store
                ELSE [k \in DOMAIN store \cup {key} |->
                        IF k # key THEN store[k]
                        ELSE [val |-> counterRecord(count, start),
                              exp |-> IF Has(store, key, t) THEN store[key].exp
                                      ELSE t + ttlSeconds * 1000]]]

\* bumpCounter whose failed read fails the call
bumpCounterReadThrows(store, key, ttlSeconds, t, getFails, putFails) ==
    LET raw == KvGet(store, key, t)
        parts == Split(raw, "|")
        count0 == IF raw # Null THEN Number(PartOr(parts, 1, <<"0">>)) ELSE 0
        start == IF raw # Null THEN Number(PartOr(parts, 2, ToStr(t))) ELSE t
        count == count0 + 1
        retryAfter == Max(1, Ceil(ttlSeconds * 1000 - (t - start), 1000))
    IN  [count |-> count, retryAfter |-> retryAfter, threw |-> getFails \/ putFails,
         kv |-> IF getFails \/ putFails THEN store
                ELSE KvPut(store, key, counterRecord(count, start), ttlSeconds, t)]

bumpCounter(store, key, ttlSeconds, t, getFails, putFails) ==
    LET raw == IF getFails THEN Null ELSE KvGet(store, key, t)
        parts == Split(raw, "|")
        count0 == IF raw # Null THEN Number(PartOr(parts, 1, <<"0">>)) ELSE 0
        start == IF raw # Null THEN Number(PartOr(parts, 2, ToStr(t))) ELSE t
        count == count0 + 1
        windowMs == ttlSeconds * 1000
        elapsed == t - start
        retryAfter == Max(1, Ceil(windowMs - elapsed, 1000))
    IN  [count |-> count, retryAfter |-> retryAfter, threw |-> putFails,
         kv |-> IF putFails THEN store
                ELSE KvPut(store, key, counterRecord(count, start), ttlSeconds, t)]

\* bumpCounter up to its put, without the increment at line 534
bumpReadNoIncrement(store, key, t) ==
    LET raw == KvGet(store, key, t)
        parts == Split(raw, "|")
    IN  [count |-> IF raw # Null THEN Number(PartOr(parts, 1, <<"0">>)) ELSE 0,
         start |-> IF raw # Null THEN Number(PartOr(parts, 2, ToStr(t))) ELSE t]

\* bumpCounter up to its put: the awaited get and the locals count and start
\* computed from what it returned
bumpRead(store, key, t) ==
    LET raw == KvGet(store, key, t)
        parts == Split(raw, "|")
        count0 == IF raw # Null THEN Number(PartOr(parts, 1, <<"0">>)) ELSE 0
    IN  [count |-> count0 + 1,
         start |-> IF raw # Null THEN Number(PartOr(parts, 2, ToStr(t))) ELSE t]

\* the awaited put of bumpCounter, with the locals of an earlier bumpRead
bumpWrite(store, key, ttlSeconds, c, t) ==
    KvPut(store, key, counterRecord(c.count, c.start), ttlSeconds, t)

StatsTtl == 60 * 60 * 24 * 7

\* parseInt(x) || 0 and parseInt(x || '0'): a missing or unreadable number is 0
intOrZero(str) == IF parseInt(str) = NaN THEN 0 ELSE parseInt(str)

trackRateLimitEvent(store, t, getFails, putFails) ==
    LET key == <<"stats:ratelimited:", isoToday(t)>>
        current == intOrZero(KvGet(store, key, t))
    IN  [threw |-> getFails \/ putFails,
         kv |-> IF getFails \/ putFails THEN store
                ELSE KvPut(store, key, ToStr(current + 1), StatsTtl, t)]

BurstWindow == 10

UserBurstLimit == 5

IpBurstLimit == 10

DefaultDailyLimit == 200

\* a > b in JavaScript: false when b is NaN
Exceeds(a, b) == b # NaN /\ a > b

userBurstKey(userId) == <<"u:", userId, ":10s">>

ipBurstKey(ip) == <<"ip:", ip, ":10s">>

dayKey(userId, t) == <<"u:", userId, ":day:", dayStampSydney(t)>>

limitKey(userId) == <<"admin:limit:", userId>>

\* customLimit ? parseInt(customLimit) : 200
dailyLimit(customLimit) ==
    IF customLimit # Null THEN parseInt(customLimit) ELSE DefaultDailyLimit

\* what enforceLimits returns; reason is the type it passes to
\* trackRateLimitEvent (user_burst, ip_burst, daily_limit), reached the last
\* check it ran
Decision == [ok |-> FALSE, threw |-> FALSE, reason |-> "", retryAfterSeconds |-> 0,
             reached |-> "user"]

\* a denial: the event is tracked first, and tracking can throw
Deny(store, reason, retryAfter, reached, t, fail) ==
    LET ev == trackRateLimitEvent(store, t, "rlGet" \in fail, "rlPut" \in fail)
    IN  IF ev.threw
        THEN [Decision EXCEPT !.threw = TRUE, !.reached = reached] @@ [kv |-> ev.kv]
        ELSE [Decision EXCEPT !.reason = reason, !.retryAfterSeconds = retryAfter,
                              !.reached = reached] @@ [kv |-> ev.kv]

Thrown(store, reached) ==
    [Decision EXCEPT !.threw = TRUE, !.reached = reached] @@ [kv |-> store]

\* enforceLimits bumping all three counters before it looks at any of them
enforceLimitsEager(store, userId, ip, t, fail) ==
    LET userBurst == bumpCounter(store, userBurstKey(userId), BurstWindow, t,
                                 "uGet" \in fail, "uPut" \in fail)
        ipBurst == bumpCounter(userBurst.kv, ipBurstKey(ip), BurstWindow, t,
                               "ipGet" \in fail, "ipPut" \in fail)
        ttl == secondsUntilSydneyMidnight(t)
        userDaily == bumpCounter(ipBurst.kv, dayKey(userId, t), ttl, t,
                                 "dayGet" \in fail, "dayPut" \in fail)
        customLimit == KvGet(userDaily.kv, limitKey(userId), t)
    IN  IF userBurst.threw THEN Thrown(userBurst.kv, "user")
        ELSE IF ipBurst.threw THEN Thrown(ipBurst.kv, "ip")
        ELSE IF userDaily.threw THEN Thrown(userDaily.kv, "daily")
        ELSE IF userBurst.count > UserBurstLimit
        THEN Deny(userDaily.kv, "user_burst", userBurst.retryAfter, "user", t, fail)
        ELSE IF ipBurst.count > IpBurstLimit
        THEN Deny(userDaily.kv, "ip_burst", ipBurst.retryAfter, "ip", t, fail)
        ELSE IF "limitGet" \in fail THEN Thrown(userDaily.kv, "daily")
        ELSE IF Exceeds(userDaily.count, dailyLimit(customLimit))
        THEN Deny(userDaily.kv, "daily_limit", userDaily.retryAfter, "daily", t, fail)
        ELSE [Decision EXCEPT !.ok = TRUE, !.reached = "daily"] @@ [kv |-> userDaily.kv]

enforceLimits(store, userId, ip, t, fail) ==
    LET userBurst == bumpCounter(store, userBurstKey(userId), BurstWindow, t,
                                 "uGet" \in fail, "uPut" \in fail)
        ipBurst == bumpCounter(userBurst.kv, ipBurstKey(ip), BurstWindow, t,
                               "ipGet" \in fail, "ipPut" \in fail)
        ttl == secondsUntilSydneyMidnight(t)
        userDaily == bumpCounter(ipBurst.kv, dayKey(userId, t), ttl, t,
                                 "dayGet" \in fail, "dayPut" \in fail)
        customLimit == KvGet(userDaily.kv, limitKey(userId), t)
    IN  IF userBurst.threw THEN Thrown(userBurst.kv, "user")
        ELSE IF userBurst.count > UserBurstLimit
        THEN Deny(userBurst.kv, "user_burst", userBurst.retryAfter, "user", t, fail)
        ELSE IF ipBurst.threw THEN Thrown(ipBurst.kv, "ip")
        ELSE IF ipBurst.count > IpBurstLimit
        THEN Deny(ipBurst.kv, "ip_burst", ipBurst.retryAfter, "ip", t, fail)
        ELSE IF userDaily.threw THEN Thrown(userDaily.kv, "daily")
        ELSE IF "limitGet" \in fail THEN Thrown(userDaily.kv, "daily")
        ELSE IF Exceeds(userDaily.count, dailyLimit(customLimit))
        THEN Deny(userDaily.kv, "daily_limit", userDaily.retryAfter, "daily", t, fail)
        ELSE [Decision EXCEPT !.ok = TRUE, !.reached = "daily"] @@ [kv |-> userDaily.kv]

----------------------------------------------------------------------------
(* handleChat *)

MaxBody == 50000

MaxContent == 8000

getClientIp(req) ==
    IF req.cfIp # "" THEN req.cfIp
    ELSE IF req.xff # <<>> /\ Head(req.xff) # "" THEN Head(req.xff)
    ELSE "unknown"

\* str.trim(): spaces are the only white space in the model's alphabet
RECURSIVE trimStart(_)
trimStart(str) == IF str # <<>> /\ Head(str) = " " THEN trimStart(Tail(str)) ELSE str

RECURSIVE trimEnd(_)
trimEnd(str) == IF str # <<>> /\ str[Len(str)] = " "
                THEN trimEnd(SubSeq(str, 1, Len(str) - 1)) ELSE str

trim(str) == trimEnd(trimStart(str))

\* str.slice(0, n)
slice0(str, n) == SubSeq(str, 1, IF Len(str) < n THEN Len(str) ELSE n)

\* the filter of the message normalisation
keepMessage(m) == m.isString /\ Len(trim(m.content)) > 0

cleanMessage(m) ==
    [role |-> IF m.role = "assistant" THEN "assistant" ELSE "user",
     content |-> slice0(trim(m.content), MaxContent)]

RECURSIVE cleanMessages(_)
cleanMessages(messages) ==
    IF messages = <<>> THEN <<>>
    ELSE IF keepMessage(Head(messages))
         THEN <<cleanMessage(Head(messages))>> \o cleanMessages(Tail(messages))
         ELSE cleanMessages(Tail(messages))

\* the model check of line 109 letting every model through
modelLockedNever(model, isAdmin) == FALSE

\* PAID_MODELS.includes(model) && !isAdmin
modelLocked(model, isAdmin) == model \in PAID_MODELS /\ ~isAdmin

\* a provider adapter (handleGemini, handleClaude, handleGPT, handleGrok,
\* handlePerplexity): no key configured throws before any HTTP call; the one
\* fetch is awaited with no timeout and no abort signal, so a provider that
\* never answers leaves the adapter suspended; a non-success status or an
\* answer with no text throws after the call
handleProvider(outcome) ==
    CASE outcome = "no_key" ->
            [calls |-> 0, threw |-> TRUE, hung |-> FALSE, text |-> ""]
      [] outcome = "text" ->
            [calls |-> 1, threw |-> FALSE, hung |-> FALSE, text |-> "answer"]
      [] outcome = "hang" ->
            [calls |-> 1, threw |-> FALSE, hung |-> TRUE, text |-> ""]
      [] OTHER ->
            [calls |-> 1, threw |-> TRUE, hung |-> FALSE, text |-> ""]

\* the separator handlePerplexity puts between merged contents
BlankLine == <<"\n", "\n">>

\* the loop of handlePerplexity over the messages: alternating is the list
\* built so far, a message with the role of its last element is appended to
\* that element's content, any other message is pushed
RECURSIVE alternatingFrom(_, _, _)
alternatingFrom(alternating, messages, sep) ==
    IF messages = <<>> THEN alternating
    ELSE LET msg == Head(messages)
             n == Len(alternating)
             pushed == Append(alternating, [role |-> msg.role, content |-> msg.content])
         IN  IF n = 0 THEN alternatingFrom(pushed, Tail(messages), sep)
             ELSE IF alternating[n].role = msg.role
             THEN alternatingFrom([alternating EXCEPT
                                      ![n].content = @ \o sep \o msg.content],
                                  Tail(messages), sep)
             ELSE alternatingFrom(pushed, Tail(messages), sep)

\* the merge joining with a single line feed
alternatingOneLineFeed(messages) == alternatingFrom(<<>>, messages, <<"\n">>)

\* what handlePerplexity sends after its system message
alternating(messages) == alternatingFrom(<<>>, messages, BlankLine)

\* stats[key] = String((parseInt(get(key)) || 0) + 1)
bumpStat(store, key, ttl, t) ==
    KvPut(store, key, ToStr(intOrZero(KvGet(store, key, t)) + 1), ttl, t)

\* the three usage counters written after the provider has answered
trackUsage(store, model, userId, t) ==
    LET today == isoToday(t)
        s1 == bumpStat(store, <<"stats:model:", model, ":", today>>, StatsTtl, t)
        s2 == bumpStat(s1, <<"stats:requests:", today>>, StatsTtl, t)
    IN  bumpStat(s2, <<"user:requests:", userId, ":total">>, NoExpiry, t)

\* what one invocation of the handler did: status 0 with threw = TRUE is an
\* exception that left handleChat, status 0 at stage "waiting" a handler that
\* stays suspended in its await and never answers
Out == [status |-> 0, threw |-> FALSE, stage |-> "", reason |-> "", retryAfter |-> 0,
        retryHeader |-> 0, text |-> "", authOk |-> FALSE, cacheHit |-> FALSE,
        idpCalled |-> FALSE, userId |-> "", isAdmin |-> FALSE, limitsOk |-> FALSE,
        reached |-> "", providerCalled |-> FALSE, providerCalls |-> 0,
        providerText |-> FALSE,
        usageTracked |-> FALSE, passed |-> <<>>, sent |-> <<>>]

\* the try block of the handler, after authentication and admission
chatBody(o, store, req, t) ==
    LET body == req.body
        model == body.model
        messages == body.messages
        cleaned == cleanMessages(messages)
        p == handleProvider(req.provider)
        statsFail == "statsGet" \in req.fail \/ "statsPut" \in req.fail
        d == [o EXCEPT !.passed = cleaned,
                       !.sent = IF model = "perplexity" /\ p.calls > 0
                                THEN alternating(cleaned) ELSE <<>>]
    IN  IF body.size > MaxBody
        THEN [o EXCEPT !.status = 413, !.stage = "size"] @@ [kv |-> store]
        ELSE IF ~body.json
        THEN [o EXCEPT !.status = 500, !.stage = "parse"] @@ [kv |-> store]
        ELSE IF messages = <<>>
        THEN [o EXCEPT !.status = 400, !.stage = "nomsg"] @@ [kv |-> store]
        ELSE IF modelLocked(model, o.isAdmin)
        THEN [o EXCEPT !.status = 403, !.stage = "locked"] @@ [kv |-> store]
        ELSE IF cleaned = <<>>
        THEN [o EXCEPT !.status = 200, !.stage = "empty", !.text = "placeholder"]
             @@ [kv |-> store]
        ELSE IF cleaned[Len(cleaned)].role # "user"
        THEN [o EXCEPT !.status = 400, !.stage = "lastrole"] @@ [kv |-> store]
        ELSE IF model \notin FREE_MODELS \cup PAID_MODELS
        THEN [o EXCEPT !.status = 400, !.stage = "unknown"] @@ [kv |-> store]
        ELSE IF p.threw
        THEN [d EXCEPT !.status = 500, !.stage = "provider",
                       !.providerCalled = p.calls > 0, !.providerCalls = p.calls]
             @@ [kv |-> store]
        ELSE IF p.hung
        THEN [d EXCEPT !.stage = "waiting", !.providerCalled = TRUE,
                       !.providerCalls = p.calls] @@ [kv |-> store]
        ELSE IF statsFail
        THEN [d EXCEPT !.status = 500, !.stage = "stats", !.providerCalled = TRUE,
                       !.providerCalls = p.calls, !.providerText = TRUE]
             @@ [kv |-> store]
        ELSE [d EXCEPT !.status = 200, !.stage = "done", !.providerCalled = TRUE,
                       !.providerCalls = p.calls, !.providerText = TRUE,
                       !.text = p.text, !.usageTracked = TRUE]
             @@ [kv |-> trackUsage(store, model, o.userId, t)]

\* the kill switch read case-insensitively
killSwitchAnyCase(value) == value \notin {"true", "TRUE"}

\* env.AI_ENABLED !== "true"
killSwitch(value) == value # "true"

handleChat(store, req, t, enabled) ==
    LET auth == getVerifiedGoogleUser(store, req, t)
        isAdmin == auth.email # <<>> /\ toLowerCase(auth.email) = toLowerCase(ADMIN_EMAIL)
        a == [Out EXCEPT !.authOk = auth.ok, !.cacheHit = auth.cacheHit,
                         !.idpCalled = auth.idpCalled]
        rl == enforceLimits(auth.kv, auth.userId, getClientIp(req), t, req.fail)
        b == [a EXCEPT !.userId = auth.userId, !.isAdmin = isAdmin,
                       !.reached = rl.reached]
    IN  IF killSwitch(enabled)
        THEN [Out EXCEPT !.status = 503, !.stage = "kill"] @@ [kv |-> store]
        ELSE IF req.contentLength > MaxBody
        THEN [Out EXCEPT !.status = 413, !.stage = "length"] @@ [kv |-> store]
        ELSE IF auth.threw
        THEN [a EXCEPT !.threw = TRUE, !.stage = "auth"] @@ [kv |-> auth.kv]
        ELSE IF ~auth.ok
        THEN [a EXCEPT !.status = auth.status, !.stage = "auth"] @@ [kv |-> auth.kv]
        ELSE IF rl.threw
        THEN [b EXCEPT !.threw = TRUE, !.stage = "limits"] @@ [kv |-> rl.kv]
        ELSE IF ~rl.ok
        THEN [b EXCEPT !.status = 429, !.stage = "limits", !.reason = rl.reason,
                       !.retryAfter = rl.retryAfterSeconds,
                       !.retryHeader = rl.retryAfterSeconds] @@ [kv |-> rl.kv]
        ELSE chatBody([b EXCEPT !.limitsOk = TRUE], rl.kv, req, t)

\* GET /api/admin/stats: the statistics are read from the store with bare
\* awaits, outside any try
handleAdminStats(store, req, t) ==
    LET auth == getVerifiedGoogleUser(store, req, t)
        a == [Out EXCEPT !.authOk = auth.ok, !.cacheHit = auth.cacheHit,
                         !.idpCalled = auth.idpCalled, !.userId = auth.userId,
                         !.isAdmin = auth.isAdmin, !.stage = "admin"]
    IN  IF auth.threw THEN [a EXCEPT !.threw = TRUE] @@ [kv |-> auth.kv]
        ELSE IF ~auth.ok \/ ~auth.isAdmin THEN [a EXCEPT !.status = 403] @@ [kv |-> auth.kv]
        ELSE IF "statsGet" \in req.fail THEN [a EXCEPT !.threw = TRUE] @@ [kv |-> auth.kv]
        ELSE [a EXCEPT !.status = 200] @@ [kv |-> auth.kv]

\* POST /api/chat as the Pages function serves it (functions/api/chat.js):
\* no kill switch, no store, no admission; the credential is verified in
\* place, and every failure of the verification is an exception that the
\* catch at the end turns into a 500; of the five adapters only gemini's
\* treats an answer with no text as an error
onRequestPost(req) ==
    LET body == req.body
        idToken == bearerToken(req.authz)
        claims == tokeninfo(idToken)
        isAdmin == toLowerCase(claims.email) = toLowerCase(ADMIN_EMAIL)
        a == [Out EXCEPT !.stage = "pages"]
        b == [a EXCEPT !.authOk = TRUE, !.userId = claims.sub, !.isAdmin = isAdmin]
        c == [b EXCEPT !.providerCalled = TRUE, !.providerCalls = 1]
    IN  IF ~body.json \/ body.model = "" THEN [a EXCEPT !.status = 400]
        ELSE IF idToken = <<>> THEN [a EXCEPT !.status = 401]
        ELSE IF ~req.idpUp \/ ~tokenValid(claims, GOOGLE_CLIENT_ID)
        THEN [a EXCEPT !.status = 500]
        ELSE IF modelLocked(body.model, isAdmin) THEN [b EXCEPT !.status = 403]
        ELSE IF body.model \notin FREE_MODELS \cup PAID_MODELS THEN [b EXCEPT !.status = 400]
        ELSE IF req.provider = "no_key" THEN [b EXCEPT !.status = 500]
        ELSE IF req.provider = "hang" THEN c
        ELSE IF req.provider = "http_error" THEN [c EXCEPT !.status = 502]
        ELSE IF req.provider = "no_text"
        THEN IF body.model = "gemini" THEN [c EXCEPT !.status = 502]
             ELSE [c EXCEPT !.status = 200, !.text = "No response"]
        ELSE [c EXCEPT !.status = 200, !.providerText = TRUE, !.text = "answer"]

----------------------------------------------------------------------------
(* src/src/index.js: hashEmail, enforceRateLimit, logAnalytics, storeUser,  *)
(* and the handlers of POST /api/chat and POST /api/auth/register          *)

\* hash = ((hash << 5) - hash) + char; hash = hash & hash: 31 * hash + char
\* in 32 bits, as halves <<hi, lo>>
RECURSIVE hash31(_, _)
hash31(h, str) ==
    IF str = <<>> THEN h
    ELSE LET low == h[2] * 31 + charCode(Head(str))
         IN  hash31(<<(h[1] * 31 + (low \div Half)) % Half, low % Half>>, Tail(str))

Base36Digits == <<"0", "1", "2", "3", "4", "5", "6", "7", "8", "9", "a", "b", "c",
                  "d", "e", "f", "g", "h", "i", "j", "k", "l", "m", "n", "o", "p",
                  "q", "r", "s", "t", "u", "v", "w", "x", "y", "z">>

\* n.toString(36) for n >= 0
RECURSIVE Base36(_)
Base36(n) == IF n < 36 THEN <<Base36Digits[n + 1]>>
             ELSE Base36(n \div 36) \o <<Base36Digits[(n % 36) + 1]>>

\* "user_" + Math.abs(hash).toString(36), the halves read as a signed number
hashEmail(email) ==
    LET h == hash31(<<0, 0>>, email)
        abs == IF h[1] < Half \div 2 THEN h[1] * Half + h[2]
               ELSE (Half - h[1] - (IF h[2] > 0 THEN 1 ELSE 0)) * Half
                    + ((Half - h[2]) % Half)
    IN  IF h = <<Half \div 2, 0>> THEN <<"user_", "z", "i", "k", "0", "z", "k">>
        ELSE <<"user_">> \o Base36(abs)

\* verifyUserToken and verifyGoogleToken: a header that starts with
\* "Bearer ", and Google's answer with the configured audience and an email;
\* nothing is cached, and anything thrown makes the credential invalid
verifyUserToken(req, t) ==
    LET data == tokeninfoAt(req.authz.cred, t)
    IN  [valid |-> /\ req.authz.scheme = "Bearer"
                   /\ req.idpUp
                   /\ data.ok /\ data.aud = GOOGLE_CLIENT_ID /\ data.email # <<>>,
         email |-> data.email]

\* enforceRateLimit with the remaining time of the window replaced by the
\* time that has passed of it
enforceRateLimitElapsed(store, bound, key, limit, windowSeconds, t) ==
    LET bucket == t \div (windowSeconds * 1000)
        storageKey == <<"rate:">> \o key \o <<":">> \o ToStr(bucket)
        count == IF Has(store, storageKey, t) THEN parseInt(store[storageKey].val) ELSE 0
        elapsed == (t \div 1000) % windowSeconds
    IN  IF ~bound THEN [allowed |-> TRUE, retryAfter |-> 0, kv |-> store]
        ELSE IF count >= limit
        THEN [allowed |-> FALSE, retryAfter |-> Max(1, elapsed), kv |-> store]
        ELSE [allowed |-> TRUE, retryAfter |-> 0,
              kv |-> KvPut(store, storageKey, ToStr(count + 1), windowSeconds, t)]

\* enforceRateLimit with a missing binding denying every request
enforceRateLimitClosed(store, bound, key, limit, windowSeconds, t) ==
    LET bucket == t \div (windowSeconds * 1000)
        storageKey == <<"rate:">> \o key \o <<":">> \o ToStr(bucket)
        count == IF Has(store, storageKey, t) THEN parseInt(store[storageKey].val) ELSE 0
        elapsed == (t \div 1000) % windowSeconds
    IN  IF ~bound THEN [allowed |-> FALSE, retryAfter |-> 1, kv |-> store]
        ELSE IF count >= limit
        THEN [allowed |-> FALSE, retryAfter |-> Max(1, windowSeconds - elapsed),
              kv |-> store]
        ELSE [allowed |-> TRUE, retryAfter |-> 0,
              kv |-> KvPut(store, storageKey, ToStr(count + 1), windowSeconds, t)]

\* enforceRateLimit: fixed buckets of windowSeconds; bound is whether
\* env.FRICTION_KV is bound
enforceRateLimit(store, bound, key, limit, windowSeconds, t) ==
    LET bucket == t \div (windowSeconds * 1000)
        storageKey == <<"rate:">> \o key \o <<":">> \o ToStr(bucket)
        count == IF Has(store, storageKey, t) THEN parseInt(store[storageKey].val) ELSE 0
        elapsed == (t \div 1000) % windowSeconds
    IN  IF ~bound THEN [allowed |-> TRUE, retryAfter |-> 0, kv |-> store]
        ELSE IF count >= limit
        THEN [allowed |-> FALSE, retryAfter |-> Max(1, windowSeconds - elapsed),
              kv |-> store]
        ELSE [allowed |-> TRUE, retryAfter |-> 0,
              kv |-> KvPut(store, storageKey, ToStr(count + 1), windowSeconds, t)]

\* the last time the clock of the model reaches
MaxNow == 50 * 60 * 60 * 1000

analyticsKey(t) == <<"analytics:", isoToday(t)>>

AnalyticsTtl == 90 * 24 * 60 * 60

\* { messages: 0, users: {}, models: {}, signups: 0 }
FreshDay == [messages |-> 0, users |-> << >>, models |-> << >>, signups |-> 0]

\* obj[name] = (obj[name] || 0) + 1 on an object that JSON.parse or a
\* literal made. For the name __proto__ the read yields Object.prototype, the
\* sum is the string "[object Object]1", and the assignment runs the
\* __proto__ setter, which ignores a value that is not an object: the object
\* keeps its properties. The model sends no other name that Object.prototype
\* defines.
countUp(obj, name) ==
    IF name = "__proto__" THEN obj
    ELSE [k \in DOMAIN obj \cup {name} |->
            IF k # name THEN obj[k]
            ELSE IF name \in DOMAIN obj THEN obj[name] + 1 ELSE 1]

\* logAnalytics up to its put: the awaited get and the parse of what it
\* returned
logRead(store, t) ==
    IF Has(store, analyticsKey(t), t) THEN store[analyticsKey(t)].val ELSE FreshDay

\* the update logAnalytics makes to the day's record before it puts it
logApply(dayData, data) ==
    IF data.type = "message"
    THEN [dayData EXCEPT !.messages = @ + 1,
                         !.users = countUp(@, data.userHash),
                         !.models = countUp(@, data.model)]
    ELSE IF data.type = "signup" THEN [dayData EXCEPT !.signups = @ + 1]
    ELSE dayData

\* the awaited put of logAnalytics; 90 days are past every time the clock of
\* the model reaches, and an entry that outlives the clock is kept as one
\* that does not expire
logWrite(store, dayData, data, t) ==
    KvPut(store, analyticsKey(t), logApply(dayData, data),
          IF AnalyticsTtl > MaxNow \div 1000 THEN NoExpiry ELSE AnalyticsTtl, t)

UsersKey == <<"users:list">>

\* storeUser up to its put: the awaited get of users:list
listRead(store, t) == IF Has(store, UsersKey, t) THEN store[UsersKey].val ELSE <<>>

\* users.find(u => u.email === email) found nothing
isNewUser(users, email) == \A i \in 1..Len(users) : users[i].email # email

\* the list storeUser puts: with the new user pushed, or with the lastActive
\* of the first user of that email renewed
listApply(users, email, t) ==
    IF isNewUser(users, email)
    THEN Append(users, [email |-> email, signupDate |-> t, lastActive |-> t])
    ELSE LET i == CHOOSE x \in 1..Len(users) :
                      /\ users[x].email = email
                      /\ \A y \in 1..(x - 1) : users[y].email # email
         IN  [users EXCEPT ![i].lastActive = t]

\* the awaited put of storeUser
listWrite(store, users, email, t) ==
    KvPut(store, UsersKey, listApply(users, email, t), NoExpiry, t)

\* the normalisation of the site's chat handler: trimmed, not clamped
RECURSIVE siteClean(_)
siteClean(messages) ==
    IF messages = <<>> THEN <<>>
    ELSE IF keepMessage(Head(messages))
         THEN <<[role |-> IF Head(messages).role = "assistant" THEN "assistant"
                          ELSE "user",
                 content |-> trim(Head(messages).content)]>>
              \o siteClean(Tail(messages))
         ELSE siteClean(Tail(messages))

SiteLimit == 60

SiteWindow == 600

\* the event the chat handler logs
messageEvent(email, model) ==
    [type |-> "message", userHash |-> hashEmail(email), model |-> model]

\* POST /api/chat of index.js up to the get of logAnalytics: go tells that
\* the handler went on to log the message, dayData is what the get returned
siteChatBegin(store, bound, req, t) ==
    LET auth == verifyUserToken(req, t)
        model == IF req.body.json THEN req.body.model ELSE ""
        messages == IF req.body.json THEN req.body.messages ELSE <<>>
        isAdmin == auth.email = ADMIN_EMAIL
        cleaned == siteClean(messages)
        o == [Out EXCEPT !.stage = "site"]
        a == [o EXCEPT !.authOk = TRUE, !.isAdmin = isAdmin]
        rateLimit == enforceRateLimit(store, bound, <<"chat:">> \o hashEmail(auth.email),
                                      SiteLimit, SiteWindow, t)
        stop(out, st) == [out |-> out, kv |-> st, go |-> FALSE, dayData |-> FreshDay]
    IN  IF ~auth.valid THEN stop([o EXCEPT !.status = 401], store)
        ELSE IF model \in PAID_MODELS /\ ~isAdmin
        THEN stop([a EXCEPT !.status = 403], store)
        ELSE IF messages = <<>> THEN stop([a EXCEPT !.status = 400], store)
        ELSE IF cleaned = <<>>
        THEN stop([a EXCEPT !.status = 200, !.text = "placeholder"], store)
        ELSE IF cleaned[Len(cleaned)].role # "user"
        THEN stop([a EXCEPT !.status = 400], store)
        ELSE IF ~rateLimit.allowed
        THEN stop([a EXCEPT !.status = 429, !.reason = "rate",
                            !.retryAfter = rateLimit.retryAfter,
                            !.retryHeader = rateLimit.retryAfter], rateLimit.kv)
        ELSE [out |-> [a EXCEPT !.limitsOk = TRUE], kv |-> rateLimit.kv, go |-> TRUE,
              dayData |-> IF bound THEN logRead(rateLimit.kv, t) ELSE FreshDay]

\* the rest of the handler: the put of logAnalytics, the adapter, the answer
siteChatEnd(b, store, bound, req, t) ==
    LET auth == verifyUserToken(req, t)
        model == req.body.model
        p == handleProvider(req.provider)
        after == IF bound
                 THEN logWrite(store, b.dayData, messageEvent(auth.email, model), t)
                 ELSE store
        c == [b.out EXCEPT !.providerCalled = p.calls > 0, !.providerCalls = p.calls]
    IN  IF model \notin FREE_MODELS \cup PAID_MODELS
        THEN [b.out EXCEPT !.status = 400] @@ [kv |-> after]
        ELSE IF p.threw THEN [c EXCEPT !.status = 500] @@ [kv |-> after]
        ELSE IF p.hung THEN [c EXCEPT !.stage = "waiting"] @@ [kv |-> after]
        ELSE [c EXCEPT !.status = 200, !.providerText = TRUE, !.text = p.text]
             @@ [kv |-> after]

\* the whole handler, nothing running between its awaits
siteChat(store, bound, req, t) ==
    LET b == siteChatBegin(store, bound, req, t)
    IN  IF b.go THEN siteChatEnd(b, b.kv, bound, req, t) ELSE b.out @@ [kv |-> b.kv]

\* the event the register handler logs for a new user
signupEvent(email) == [type |-> "signup", userHash |-> hashEmail(email), model |-> ""]

\* POST /api/auth/register up to the get of storeUser: go tells that the
\* handler went on to storeUser's put, users is what the get returned
registerBegin(store, bound, req, t) ==
    LET auth == verifyUserToken(req, t)
        o == [Out EXCEPT !.stage = "site"]
    IN  IF ~auth.valid
        THEN [out |-> [o EXCEPT !.status = 401], go |-> FALSE, users |-> <<>>]
        ELSE IF ~bound
        THEN [out |-> [o EXCEPT !.authOk = TRUE, !.status = 200], go |-> FALSE,
              users |-> <<>>]
        ELSE [out |-> [o EXCEPT !.authOk = TRUE], go |-> TRUE, users |-> listRead(store, t)]

ExtractLimit == 15

\* POST /api/appointments/extract: the image is read by the provider after
\* the rate limit; anything thrown is answered 500
siteExtract(store, bound, req, t) ==
    LET auth == verifyUserToken(req, t)
        imageBase64 == IF req.body.json THEN req.body.imageBase64 ELSE <<>>
        o == [Out EXCEPT !.stage = "site"]
        a == [o EXCEPT !.authOk = TRUE]
        extractRate == enforceRateLimit(store, bound,
                                        <<"appointments:extract:">> \o hashEmail(auth.email),
                                        ExtractLimit, SiteWindow, t)
        p == handleProvider(req.provider)
        c == [a EXCEPT !.limitsOk = TRUE, !.providerCalled = p.calls > 0,
                       !.providerCalls = p.calls]
    IN  IF ~auth.valid THEN [o EXCEPT !.status = 401] @@ [kv |-> store]
        ELSE IF trim(imageBase64) = <<>> THEN [a EXCEPT !.status = 400] @@ [kv |-> store]
        ELSE IF ~extractRate.allowed
        THEN [a EXCEPT !.status = 429, !.reason = "rate",
                       !.retryAfter = extractRate.retryAfter,
                       !.retryHeader = extractRate.retryAfter] @@ [kv |-> extractRate.kv]
        ELSE IF p.threw THEN [c EXCEPT !.status = 500] @@ [kv |-> extractRate.kv]
        ELSE IF p.hung THEN [c EXCEPT !.stage = "waiting"] @@ [kv |-> extractRate.kv]
        ELSE [c EXCEPT !.status = 200, !.providerText = TRUE, !.text = p.text]
             @@ [kv |-> extractRate.kv]

----------------------------------------------------------------------------
(* The requests the model sends *)

Sites == {"tokGet", "tokPut", "uGet", "uPut", "ipGet", "ipPut", "dayGet", "dayPut",
          "limitGet", "rlGet", "rlPut", "statsGet", "statsPut"}

\* the store operations of enforceLimits
AdmissionSites == {"uGet", "uPut", "ipGet", "ipPut", "dayGet", "dayPut",
                   "limitGet", "rlGet", "rlPut"}

Msg(role, content) == [role |-> role, content |-> content, isString |-> TRUE]

Hi == <<"h", "i">>

GoodBody(model) ==
    [size |-> 100, json |-> TRUE, model |-> model, messages |-> <<Msg("user", Hi)>>]

Bearer(cred) == [scheme |-> "Bearer", cred |-> cred]

BaseReq(cred, model) ==
    [authz |-> Bearer(cred), cfIp |-> "1.1.1.1", xff |-> <<>>, contentLength |-> 0,
     body |-> GoodBody(model), fail |-> {}, idpUp |-> TRUE, provider |-> "text",
     path |-> "/api/chat"]

Bob == BaseReq(BobToken, "gemini")

FailPatterns == {Sites, AdmissionSites, {"uGet"}, {"statsPut"}, {"statsGet"}, {"rlPut"}}

Requests ==
    {BaseReq(c, m) : c \in {BobToken, AdminToken, MalloryToken}, m \in {"gemini", "claude"}}
    \cup {BaseReq(JunkToken, "gemini"),
          [Bob EXCEPT !.authz = [scheme |-> "", cred |-> <<>>]],
          [Bob EXCEPT !.idpUp = FALSE],
          [Bob EXCEPT !.contentLength = 60000]}
    \cup {[Bob EXCEPT !.fail = f] : f \in FailPatterns}
    \cup {[Bob EXCEPT !.provider = p] : p \in {"http_error", "no_text", "no_key", "hang"}}
    \cup {[Bob EXCEPT !.body.size = 60000],
          [Bob EXCEPT !.body.json = FALSE],
          [Bob EXCEPT !.body.messages = <<>>],
          [Bob EXCEPT !.body.messages = <<Msg("user", <<" ">>)>>],
          [Bob EXCEPT !.body.messages = <<Msg("user", Hi), Msg("assistant", Hi)>>],
          [Bob EXCEPT !.body.model = "llama"]}

\* the requests for the administrator's statistics
AdminStats(req) == [req EXCEPT !.path = "/api/admin/stats"]

AdminRequests ==
    {AdminStats(BaseReq(c, "gemini")) : c \in {AdminToken, JunkToken}}
    \cup {AdminStats([Bob EXCEPT !.authz = [scheme |-> "", cred |-> <<>>]])}

\* the requests to the Pages function
Pages(req) == [req EXCEPT !.path = "functions/api/chat"]

PagesRequests ==
    {Pages(BaseReq(AdminToken, "claude")),
     Pages([BaseReq(AdminToken, "claude") EXCEPT !.provider = "no_text"]),
     Pages([Bob EXCEPT !.provider = "no_text"]),
     Pages(BaseReq(JunkToken, "gemini"))}

\* a trimmed text one character longer than the clamp, with a space where
\* the clamp cuts
LongText == [i \in 1..(MaxContent + 1) |-> IF i = MaxContent THEN " " ELSE "a"]

\* raw messages as a client may send them: padded, blank, with a content that
\* is not a string, with a role that is neither user nor assistant, too long
RawMessages ==
    {Msg("user", Hi), Msg("assistant", Hi), Msg("system", <<" ", "h", "i", " ">>),
     Msg("user", <<" ">>), [role |-> "user", content |-> <<>>, isString |-> FALSE],
     Msg("user", LongText)}

\* the longest conversation of the perplexity scenarios
MaxMessages == 4

Letters == <<"a", "b", "c", "d", "e", "f">>

\* the conversation whose i-th message has role roles[i] and the i-th letter
\* as its content
Conversation(roles) == [i \in DOMAIN roles |-> Msg(roles[i], <<Letters[i]>>)]

WithMessages(req, messages) == [req EXCEPT !.body.messages = messages]

\* the requests of the scenarios about the messages: free-model requests with
\* one or two raw messages, and the administrator's perplexity requests with
\* every conversation of users' and assistant's turns
MessageRequests ==
    {WithMessages(Bob, <<m>>) : m \in RawMessages}
    \cup {WithMessages(Bob, <<m1, m2>>) : m1 \in RawMessages, m2 \in RawMessages}
    \cup UNION {{WithMessages(BaseReq(AdminToken, "perplexity"), Conversation(r)) :
                   r \in [1..n -> {"user", "assistant"}]} : n \in 1..MaxMessages}
    \cup {WithMessages(BaseReq(AdminToken, "perplexity"),
                       <<Msg("user", <<"a">>), Msg("assistant", <<" ">>),
                         Msg("user", <<"c">>)>>)}

\* the chat requests of the scenarios about the other endpoints
EndpointChats == {Bob, BaseReq(MalloryToken, "gemini"), BaseReq(JunkToken, "gemini")}

----------------------------------------------------------------------------
(* The state machine *)

Users == {"bob", "root", "mallory"}

Overrides == {<<"1">>, <<"2">>}

\* the administrator's own daily limit, as stored under admin:limit:root
RootOverride == <<"9">>

\* values the deployment may give AI_ENABLED
EnabledValues == {"true", "false", "TRUE"}

NoRun == [n |-> 0, t0 |-> 0]

NoDenial == [reason |-> "", at |-> 0, r |-> 0]

\* concurrent invocations calling bumpCounter on one key
MaxCalls == 3

Calls == 1..MaxCalls

\* the counter the concurrent calls bump: one user's burst counter
RaceKey == userBurstKey("bob")

\* a bumpCounter call: pc is idle before the get, read between the get and
\* the put, done after the put; readAt and writeAt number the get and the put
\* in the order in which the store served them
IdleCall == [pc |-> "idle", count |-> 0, start |-> 0, readAt |-> 0, writeAt |-> 0]

\* base is the count the key held when the first of the calls read it
NoRace == [call |-> [c \in Calls |-> IdleCall], step |-> 0, base |-> 0]

NotSeen == [n |-> 0, at |-> 0, verifiedAt |-> -1]

\* index.js at rest: chats and extracts count the requests that reached
\* enforceRateLimit in the current bucket, deniedAt and r hold the pending
\* denial of a chat request
\* handlers of index.js running at the same time
MaxJobs == 3

Jobs == 1..MaxJobs

\* a handler that has not begun: pc is where it stands, req its request,
\* users and dayData what its gets returned, out its answer so far
IdleJob == [pc |-> "idle", req |-> Bob, users |-> <<>>, dayData |-> FreshDay, out |-> Out]

\* listed holds the emails that a put of storeUser added to users:list
NoIx == [bound |-> TRUE, chats |-> 0, extracts |-> 0, deniedAt |-> -1, r |-> 0,
         job |-> [j \in Jobs |-> IdleJob], listed |-> {}]

NoLast == [req |-> Bob, out |-> Out, nth |-> 0, dayNth |-> 0, waited |-> ""]

FineSpan == 10000

RetrySpan == 12000

MaxBurst == 7

MaxIpBurst == 12

MaxDaily == 4

\* counted requests a day, all users together, in the gate scenarios
MaxGate == 2

Init ==
    /\ now = 0
    /\ \E v \in Overrides :
          kv = [k \in {limitKey("bob"), limitKey("root")} |->
                   [val |-> IF k = limitKey("bob") THEN v ELSE RootOverride,
                    exp |-> NoExpiry]]
    /\ aiEnabled \in EnabledValues
    /\ last = NoLast
    /\ run = [u \in Users |-> NoRun]
    /\ denial = [u \in Users |-> NoDenial]
    /\ dayRun = [u \in Users |-> [day |-> dayStampSydney(0), n |-> 0, clean |-> TRUE]]
    /\ race = NoRace
    /\ seen = [u \in Users |-> NotSeen]
    /\ ix = NoIx

\* the count a counter key holds, 0 when it holds none
StoredCount(store, key, t) ==
    IF Has(store, key, t) THEN Number(Split(store[key].val, "|")[1]) ELSE 0

\* the run of requests of user u that began when u had no burst record
NextRun(u, req, t) ==
    IF req.fail # {} THEN NoRun
    ELSE IF ~Has(kv, userBurstKey(u), t) THEN [n |-> 1, t0 |-> t]
    ELSE IF run[u].n > 0 /\ t < run[u].t0 + BurstWindow * 1000
         THEN [run[u] EXCEPT !.n = @ + 1]
         ELSE NoRun

\* the requests of user u that reached the daily check on the current day
NextDayRun(u, req, t) ==
    LET d == dayStampSydney(t)
        old == IF dayRun[u].day = d THEN dayRun[u] ELSE [day |-> d, n |-> 0, clean |-> TRUE]
    IN  IF req.fail # {} \/ ~old.clean THEN [day |-> d, n |-> 0, clean |-> FALSE]
        ELSE [old EXCEPT !.n = @ + 1]

\* user u was denied with a retry hint and has let that many seconds pass
Waited(u, req, t) ==
    IF denial[u].reason # "" /\ req.fail = {} /\ t >= denial[u].at + denial[u].r * 1000
    THEN denial[u].reason ELSE ""

\* what user u's counted request at time t adds to the user's history: a
\* request the store serves less than a window after the previous one of a
\* streak prolongs the streak
NextSeen(u, req, o, t) ==
    [n |-> IF req.fail # {} THEN 0
           ELSE IF seen[u].n > 0 /\ t - seen[u].at < BurstWindow * 1000
           THEN seen[u].n + 1 ELSE 1,
     at |-> t,
     verifiedAt |-> IF o.idpCalled THEN t ELSE seen[u].verifiedAt]

\* one invocation of the handler, with what it means for the callers' records
Record(req, o) ==
    LET u == o.userId
        counted == o.authOk
        daily == counted /\ o.reached = "daily"
    IN  /\ kv' = o.kv
        /\ run' = IF counted THEN [run EXCEPT ![u] = NextRun(u, req, now)] ELSE run
        /\ dayRun' = IF daily THEN [dayRun EXCEPT ![u] = NextDayRun(u, req, now)]
                     ELSE dayRun
        /\ denial' = IF ~counted THEN denial
                     ELSE IF o.status = 429
                     THEN [denial EXCEPT ![u] = [reason |-> o.reason, at |-> now,
                                                 r |-> o.retryAfter]]
                     ELSE [denial EXCEPT ![u] = NoDenial]
        /\ seen' = IF counted THEN [seen EXCEPT ![u] = NextSeen(u, req, o, now)] ELSE seen
        /\ last' = [req |-> req, out |-> [f \in DOMAIN Out |-> o[f]],
                    nth |-> IF counted THEN run'[u].n ELSE 0,
                    dayNth |-> IF daily THEN dayRun'[u].n ELSE 0,
                    waited |-> IF counted THEN Waited(u, req, now) ELSE ""]

HandleChat(req) ==
    /\ \E o \in {handleChat(kv, req, now, aiEnabled)} :
          /\ StoredCount(kv, userBurstKey(o.userId), now) < MaxBurst
          /\ StoredCount(kv, ipBurstKey(getClientIp(req)), now) < MaxIpBurst
          /\ Record(req, o)
    /\ UNCHANGED <<now, aiEnabled, race, ix>>

HandleAdminStats(req) ==
    /\ \E o \in {handleAdminStats(kv, req, now)} :
          /\ kv' = o.kv
          /\ last' = [req |-> req, out |-> [f \in DOMAIN Out |-> o[f]],
                      nth |-> 0, dayNth |-> 0, waited |-> ""]
    /\ UNCHANGED <<now, aiEnabled, run, denial, dayRun, race, seen, ix>>

HandlePagesChat(req) ==
    /\ last' = [req |-> req, out |-> onRequestPost(req), nth |-> 0, dayNth |-> 0,
                waited |-> ""]
    /\ UNCHANGED <<now, kv, aiEnabled, run, denial, dayRun, race, seen, ix>>

\* time passes: the store evicts what has expired, and a run whose window has
\* closed is over
Advance(t) ==
    /\ t > now
    /\ t <= MaxNow
    /\ now' = t
    /\ kv' = Evict(kv, t)
    /\ run' = [u \in Users |->
                 IF run[u].n > 0 /\ t >= run[u].t0 + BurstWindow * 1000
                 THEN NoRun ELSE run[u]]
    /\ UNCHANGED <<aiEnabled, last, denial, dayRun, race, seen, ix>>

Tick(d) ==
    /\ (now % HourMs) + d <= FineSpan
    /\ Advance(now + d)

\* a long pause, to the next multiple of twelve hours
Sleep ==
    /\ now < MaxNow
    /\ Advance(((now \div (12 * HourMs)) + 1) * 12 * HourMs)

\* the caller of the last request waits as long as the 429 told it to
WaitRetry(reason) ==
    /\ last.out.status = 429
    /\ last.out.reason = reason
    /\ denial[last.out.userId].at = now
    /\ \/ reason = "daily_limit"
       \/ (now % HourMs) + last.out.retryHeader * 1000 <= RetrySpan
    /\ Advance(now + last.out.retryHeader * 1000)

\* the requests of the burst scenarios: one caller, whose read of the burst
\* counter may fail
BurstRequests ==
    {BaseReq(AdminToken, "gemini"), [BaseReq(AdminToken, "gemini") EXCEPT !.fail = {"uGet"}]}

\* the requests of the daily scenarios
DayRequests == {Bob}

\* the requests counted so far, by all users, in the current Sydney day
RECURSIVE DayTotal(_)
DayTotal(us) ==
    IF us = {} THEN 0
    ELSE LET u == CHOOSE x \in us : TRUE
         IN StoredCount(kv, dayKey(u, now), now) + DayTotal(us \ {u})

\* the scenarios that do not exhaust the burst window stop at MaxDaily counted
\* requests a day
DayBelow == DayTotal(Users) < MaxDaily

\* the gate scenarios stop at MaxGate counted requests a day
GateBelow == DayTotal(Users) < MaxGate

\* a request of the gate scenarios
GateChat(req) ==
    /\ GateBelow
    /\ HandleChat(req)

\* a request of the daily scenarios
DayChat(req) ==
    /\ DayBelow
    /\ HandleChat(req)

Next ==
    \/ \E req \in Requests : GateChat(req)
    \/ Tick(10000)

Spec == Init /\ [][Next]_vars

NextEndpoints ==
    \/ \E req \in EndpointChats : GateChat(req)
    \/ \E req \in AdminRequests : HandleAdminStats(req)
    \/ \E req \in PagesRequests : HandlePagesChat(req)
    \/ Tick(10000)

SpecEndpoints == Init /\ [][NextEndpoints]_vars

NextBurst ==
    \/ \E req \in BurstRequests : HandleChat(req)
    \/ Tick(2500)
    \/ WaitRetry("user_burst")

SpecBurst == Init /\ [][NextBurst]_vars

NextDay ==
    \/ \E req \in DayRequests : DayChat(req)
    \/ Sleep
    \/ WaitRetry("daily_limit")

SpecDay == Init /\ [][NextDay]_vars

\* the requests of the scenarios about the token cache
CacheRequests == {BaseReq(AgedToken, "gemini"), BaseReq(AdminToken, "gemini")}

CacheStep == 20 * 60 * 1000

\* the twenty-minute pauses of the scenarios about the token cache
MaxCacheSteps == 4

\* twenty minutes pass
CachePause ==
    /\ now + CacheStep <= MaxCacheSteps * CacheStep
    /\ Advance(now + CacheStep)

NextCache ==
    \/ \E req \in CacheRequests : DayChat(req)
    \/ CachePause

SpecCache == Init /\ [][NextCache]_vars

\* the scenarios about the messages handed to the adapters
NextMessages == \E req \in MessageRequests : GateChat(req)

SpecMessages == Init /\ [][NextMessages]_vars

\* call c of bumpCounter(kv, RaceKey, 10) runs up to its put
BumpRead(c) ==
    /\ race.call[c].pc = "idle"
    /\ \E r \in {bumpRead(kv, RaceKey, now)} :
          race' = [race EXCEPT !.call[c] = [pc |-> "read", count |-> r.count,
                                            start |-> r.start,
                                            readAt |-> race.step + 1, writeAt |-> 0],
                               !.step = @ + 1,
                               !.base = IF race.step = 0
                                        THEN StoredCount(kv, RaceKey, now) ELSE @]
    /\ UNCHANGED <<now, kv, aiEnabled, last, run, denial, dayRun, seen, ix>>

\* call c resumes after its get, puts its record and returns its count
BumpWrite(c) ==
    /\ race.call[c].pc = "read"
    /\ kv' = bumpWrite(kv, RaceKey, BurstWindow, race.call[c], now)
    /\ race' = [race EXCEPT !.call[c].pc = "done",
                            !.call[c].writeAt = race.step + 1,
                            !.step = @ + 1]
    /\ UNCHANGED <<now, aiEnabled, last, run, denial, dayRun, seen, ix>>

\* a whole request served before any of the concurrent calls began
EarlierChat(req) ==
    /\ race.step = 0
    /\ GateChat(req)

\* the interleavings of the reads and writes of concurrent bumpCounter calls
\* on one key, within one window
NextRace ==
    \/ \E req \in DayRequests : EarlierChat(req)
    \/ \E c \in Calls : BumpRead(c)
    \/ \E c \in Calls : BumpWrite(c)

SpecRace == Init /\ [][NextRace]_vars

\* a POST /api/appointments/extract of Bob's with an image
Extract == [Bob EXCEPT !.path = "/api/appointments/extract",
                       !.body = [json |-> TRUE, imageBase64 |-> <<"a">>]]

SiteRequests == {Bob, BaseReq(JunkToken, "gemini"), BaseReq(BobToken, "claude")}

ExtractRequests == {Extract, [Extract EXCEPT !.body.imageBase64 = <<" ">>]}

\* requests that reach enforceRateLimit in one bucket, per endpoint
MaxSiteChats == 62

MaxSiteExtracts == 17

MaxSiteTicks == 2

\* 250.5 s, so that the clock is not always at a whole second
SiteTickMs == 250 * 1000 + 500

\* the deployment of index.js starts with an empty store
InitSite ==
    /\ now = 0
    /\ kv = << >>
    /\ aiEnabled = "true"
    /\ last = NoLast
    /\ run = [u \in Users |-> NoRun]
    /\ denial = [u \in Users |-> NoDenial]
    /\ dayRun = [u \in Users |-> [day |-> dayStampSydney(0), n |-> 0, clean |-> TRUE]]
    /\ race = NoRace
    /\ seen = [u \in Users |-> NotSeen]
    /\ ix = NoIx

\* the deployment with no FRICTION_KV bound in its environment
InitUnbound ==
    /\ now = 0
    /\ kv = << >>
    /\ aiEnabled = "true"
    /\ last = NoLast
    /\ run = [u \in Users |-> NoRun]
    /\ denial = [u \in Users |-> NoDenial]
    /\ dayRun = [u \in Users |-> [day |-> dayStampSydney(0), n |-> 0, clean |-> TRUE]]
    /\ race = NoRace
    /\ seen = [u \in Users |-> NotSeen]
    /\ ix = [NoIx EXCEPT !.bound = FALSE]

\* the request reached the call of enforceRateLimit
Limited(o) == o.limitsOk \/ (o.status = 429 /\ o.reason = "rate")

\* a handler of index.js runs from its first line to its answer
SiteHandle(req) ==
    /\ \E o \in {IF req.path = "/api/chat" THEN siteChat(kv, ix.bound, req, now)
                 ELSE siteExtract(kv, ix.bound, req, now)} :
          LET chat == req.path = "/api/chat" /\ Limited(o)
              extract == req.path # "/api/chat" /\ Limited(o)
          IN  /\ chat => ix.chats < MaxSiteChats
              /\ extract => ix.extracts < MaxSiteExtracts
              /\ kv' = o.kv
              /\ last' = [req |-> req, out |-> [f \in DOMAIN Out |-> o[f]],
                          nth |-> IF chat THEN ix.chats + 1
                                  ELSE IF extract THEN ix.extracts + 1 ELSE 0,
                          dayNth |-> 0,
                          waited |-> IF /\ chat
                                        /\ ix.deniedAt >= 0
                                        /\ now >= ix.deniedAt + ix.r * 1000
                                     THEN "rate" ELSE ""]
              /\ ix' = [ix EXCEPT !.chats = IF chat THEN @ + 1 ELSE @,
                                  !.extracts = IF extract THEN @ + 1 ELSE @,
                                  !.deniedAt = IF ~chat THEN @
                                               ELSE IF o.status = 429 THEN now ELSE -1,
                                  !.r = IF ~chat THEN @
                                        ELSE IF o.status = 429 THEN o.retryAfter ELSE 0]
    /\ UNCHANGED <<now, aiEnabled, run, denial, dayRun, race, seen>>

\* time passes for the deployment of index.js; the counts of requests are
\* those of the bucket the clock is in
SiteAdvance(t) ==
    /\ now' = t
    /\ kv' = Evict(kv, t)
    /\ ix' = IF t \div (SiteWindow * 1000) = now \div (SiteWindow * 1000) THEN ix
             ELSE [ix EXCEPT !.chats = 0, !.extracts = 0]
    /\ UNCHANGED <<aiEnabled, last, run, denial, dayRun, race, seen>>

SiteTick ==
    /\ now + SiteTickMs <= MaxSiteTicks * SiteTickMs
    /\ SiteAdvance(now + SiteTickMs)

\* the caller that was denied waits for as long as it was told, or longer
SiteWait(extra) ==
    /\ ix.deniedAt >= 0
    /\ now <= MaxSiteTicks * SiteTickMs
    /\ now < ix.deniedAt + ix.r * 1000
    /\ SiteAdvance(ix.deniedAt + ix.r * 1000 + extra)

NextSite ==
    \/ \E req \in SiteRequests : SiteHandle(req)
    \/ SiteTick
    \/ \E extra \in {0, SiteTickMs} : SiteWait(extra)

SpecSite == InitSite /\ [][NextSite]_vars

NextUnbound ==
    \/ \E req \in SiteRequests \cup ExtractRequests : SiteHandle(req)
    \/ SiteTick

SpecUnbound == InitUnbound /\ [][NextUnbound]_vars

\* the requests to POST /api/auth/register
Register(req) == [req EXCEPT !.path = "/api/auth/register"]

RegisterRequests == {Register(BaseReq(c, "gemini")) : c \in {BobToken, AdminToken, JunkToken}}

\* chat requests whose events reach logAnalytics; the model of a request is
\* whatever string its body holds
EventRequests == {Bob, BaseReq(AdminToken, "claude"), BaseReq(BobToken, "__proto__")}

Email(req) == verifyUserToken(req, now).email

\* the answer of handler j, as the last thing that happened
Answer(j, o) ==
    last' = [req |-> ix.job[j].req, out |-> [f \in DOMAIN Out |-> o[f]], nth |-> j,
             dayNth |-> 0, waited |-> ""]

\* handler j takes a register request, verifies its credential and awaits
\* the get of storeUser
RegisterBegin(j, req) ==
    /\ ix.job[j].pc = "idle"
    /\ \A i \in 1..(j - 1) : ix.job[i].pc # "idle"
    /\ \E b \in {registerBegin(kv, ix.bound, req, now)} :
          /\ ix' = [ix EXCEPT !.job[j] = [pc |-> IF b.go THEN "list" ELSE "done",
                                          req |-> req, users |-> b.users,
                                          dayData |-> FreshDay, out |-> b.out]]
          /\ IF b.go THEN last' = last
             ELSE last' = [req |-> req, out |-> b.out, nth |-> j, dayNth |-> 0,
                           waited |-> ""]
    /\ UNCHANGED <<now, kv, aiEnabled, run, denial, dayRun, race, seen>>

\* handler j resumes after the get of storeUser and awaits its put; a user
\* that is not new is answered when the put returns
RegisterStore(j) ==
    /\ ix.job[j].pc = "list"
    /\ LET job == ix.job[j]
           email == Email(job.req)
           isNew == isNewUser(job.users, email)
       IN  /\ kv' = listWrite(kv, job.users, email, now)
           /\ ix' = [ix EXCEPT !.job[j].pc = IF isNew THEN "stored" ELSE "done",
                               !.job[j].out.status = IF isNew THEN @ ELSE 200,
                               !.listed = IF isNew THEN @ \cup {email} ELSE @]
           /\ IF isNew THEN last' = last
              ELSE Answer(j, [job.out EXCEPT !.status = 200])
    /\ UNCHANGED <<now, aiEnabled, run, denial, dayRun, race, seen>>

\* handler j, whose user was new, awaits the get of logAnalytics
RegisterLog(j) ==
    /\ ix.job[j].pc = "stored"
    /\ ix' = [ix EXCEPT !.job[j].pc = "signup", !.job[j].dayData = logRead(kv, now)]
    /\ UNCHANGED <<now, kv, aiEnabled, last, run, denial, dayRun, race, seen>>

\* handler j resumes after the get of logAnalytics, puts the day's record
\* with its signup and answers
RegisterEnd(j) ==
    /\ ix.job[j].pc = "signup"
    /\ LET job == ix.job[j]
       IN  /\ kv' = logWrite(kv, job.dayData, signupEvent(Email(job.req)), now)
           /\ ix' = [ix EXCEPT !.job[j].pc = "done", !.job[j].out.status = 200]
           /\ Answer(j, [job.out EXCEPT !.status = 200])
    /\ UNCHANGED <<now, aiEnabled, run, denial, dayRun, race, seen>>

\* handler j takes a chat request and runs up to the get of logAnalytics
ChatBegin(j, req) ==
    /\ ix.job[j].pc = "idle"
    /\ \A i \in 1..(j - 1) : ix.job[i].pc # "idle"
    /\ \E b \in {siteChatBegin(kv, ix.bound, req, now)} :
          /\ kv' = b.kv
          /\ ix' = [ix EXCEPT !.job[j] = [pc |-> IF b.go THEN "message" ELSE "done",
                                          req |-> req, users |-> <<>>,
                                          dayData |-> b.dayData, out |-> b.out]]
          /\ IF b.go THEN last' = last
             ELSE last' = [req |-> req, out |-> b.out, nth |-> j, dayNth |-> 0,
                           waited |-> ""]
    /\ UNCHANGED <<now, aiEnabled, run, denial, dayRun, race, seen>>

\* handler j resumes after the get of logAnalytics, puts the day's record
\* with its message, runs the adapter and answers
ChatEnd(j) ==
    /\ ix.job[j].pc = "message"
    /\ LET job == ix.job[j]
           b == [out |-> job.out, dayData |-> job.dayData]
       IN  \E o \in {siteChatEnd(b, kv, ix.bound, job.req, now)} :
              /\ kv' = o.kv
              /\ ix' = [ix EXCEPT !.job[j].pc = "done",
                                  !.job[j].out = [f \in DOMAIN Out |-> o[f]]]
              /\ Answer(j, o)
    /\ UNCHANGED <<now, aiEnabled, run, denial, dayRun, race, seen>>

\* the interleavings of up to MaxJobs register calls at their awaits
NextRegister ==
    \/ \E j \in Jobs, req \in RegisterRequests : RegisterBegin(j, req)
    \/ \E j \in Jobs : RegisterStore(j)
    \/ \E j \in Jobs : RegisterLog(j)
    \/ \E j \in Jobs : RegisterEnd(j)

SpecRegister == InitSite /\ [][NextRegister]_vars

\* the interleavings of up to MaxJobs chat calls at the awaits of their
\* logAnalytics
NextEvents ==
    \/ \E j \in Jobs, req \in EventRequests : ChatBegin(j, req)
    \/ \E j \in Jobs : ChatEnd(j)

SpecEvents == InitSite /\ [][NextEvents]_vars

----------------------------------------------------------------------------
(* Properties *)

\* C1: a user with no burst record whose requests the store serves is not
\* denied by the user-burst check on the first five requests of one 10 s
\* window, and the sixth request of that window is denied with reason
\* user_burst and a retry hint that is an integer from 1 to 10
C1_BurstLimit ==
    /\ last.nth \in 1..UserBurstLimit =>
          ~(last.out.status = 429 /\ last.out.reason = "user_burst")
    /\ last.nth = UserBurstLimit + 1 =>
          /\ last.out.status = 429
          /\ last.out.reason = "user_burst"
          /\ last.out.retryAfter \in 1..BurstWindow

\* the sixth request of a window has been denied, some seconds into the window
C1_Witness ==
    /\ last.nth = UserBurstLimit + 1
    /\ last.out.reason = "user_burst"
    /\ last.out.retryAfter < BurstWindow

\* C2: a caller whom the user-burst check denied with a retry hint of R
\* seconds, and who sends its next request R seconds later or more, is not
\* denied by the user-burst check on that request
C2_RetryHonoured ==
    last.waited = "user_burst" =>
        ~(last.out.status = 429 /\ last.out.reason = "user_burst")

\* C3: when every read and write of the store fails while a verified caller's
\* request is being admitted, the request is refused with a 429 that carries a
\* retry hint of at least one second: it is not admitted and no provider is
\* called
C3_FailClosed ==
    (last.out.authOk /\ AdmissionSites \subseteq last.req.fail) =>
        /\ last.out.status = 429
        /\ last.out.retryAfter >= 1
        /\ ~last.out.limitsOk
        /\ ~last.out.providerCalled

\* the daily limit of user u: the override the store holds, otherwise 200
LimitOf(u) == dailyLimit(KvGet(kv, limitKey(u), now))

\* C4: of the requests of a user that reach the daily check within one Sydney
\* calendar day, with the store serving every read and write, the first L are
\* allowed and every later one is denied with reason daily_limit, L being the
\* user's daily limit; the count restarts when the day stamp changes
C4_DailyQuota ==
    last.dayNth > 0 =>
        IF last.dayNth <= LimitOf(last.out.userId)
        THEN last.out.limitsOk
        ELSE last.out.status = 429 /\ last.out.reason = "daily_limit"

\* C5: a caller whom the daily check denied with a retry hint of R seconds,
\* and who sends its next request R seconds later or more, is not denied by the
\* daily check on that request
C5_DailyRetryHonest ==
    last.waited = "daily_limit" =>
        ~(last.out.status = 429 /\ last.out.reason = "daily_limit")

\* C6: a well-formed chat request of a verified caller who is not the
\* administrator, selecting a paid model, with the store serving every call, is
\* answered 403 whatever the state of the caller's counters
C6_LockedModel403 ==
    (/\ last.out.authOk
     /\ ~last.out.isAdmin
     /\ last.req.body.model \in PAID_MODELS
     /\ last.req.fail = {}) => last.out.status = 403

\* the last request went as far as the verification of its credential
Verified == last.out.stage \notin {"", "kill", "length"}

\* C7: a request whose credential was issued for another client ID is answered
\* 401 by the verification; it is never given an identity from the cache,
\* whatever entry the store holds under the credential's cache key
C7_AudienceChecked ==
    (Verified /\ tokeninfo(bearerToken(last.req.authz)).aud \notin {"", GOOGLE_CLIENT_ID}) =>
        /\ last.out.status = 401
        /\ ~last.out.authOk
        /\ ~last.out.cacheHit

\* the usage counters of lines 167-184, as the store holds them
UsageKinds == {"stats:model:", "stats:requests:", "user:requests:"}

UsageOf(store) == [k \in {x \in DOMAIN store : x[1] \in UsageKinds} |-> store[k].val]

\* the last request passed every gate of the handler, in order
GatesPassed ==
    /\ ~killSwitch(aiEnabled)
    /\ last.out.authOk
    /\ last.out.limitsOk
    /\ last.req.body.model \in PAID_MODELS => last.out.isAdmin

\* C8: a step in which a provider is called, or a usage counter is written,
\* handles a request for which the kill switch is off, the verification
\* returned an identity, enforceLimits returned ok and, if the model is paid,
\* the identity is the administrator
C8_GatesBeforeProvider ==
    [][(last'.out.providerCalled \/ UsageOf(kv') # UsageOf(kv)) => GatesPassed']_vars

\* the administrator's request for a paid model has been dispatched and counted
C8_Witness ==
    /\ last.out.providerCalled
    /\ last.out.usageTracked
    /\ last.req.body.model \in PAID_MODELS
    /\ <<"user:requests:", last.out.userId, ":total">> \in DOMAIN kv

\* C9: every handled request ends in a response with a status code: no
\* exception leaves the handler, whichever store call, identity-provider call
\* or provider call fails
C9_NoEscape ==
    last.out.stage # "" => (~last.out.threw /\ last.out.status \in 200..599)

\* C10: when the provider has returned text and a store call that records the
\* usage counters fails, the request is still answered 200 with that text
C10_StatsDoNotAffect ==
    (last.out.providerText /\ last.req.fail \cap {"statsGet", "statsPut"} # {}) =>
        (last.out.status = 200 /\ last.out.text = handleProvider("text").text)

\* the credential of a request is missing, rejected by the identity provider,
\* issued for another client, or lacks the subject or the email
BadCredential(req) ==
    \/ bearerToken(req.authz) = <<>>
    \/ ~tokenValid(tokeninfo(bearerToken(req.authz)), GOOGLE_CLIENT_ID)

\* C11: on the chat endpoint and on the administrator's statistics, a request
\* with a bad credential, the identity provider and the store being reachable,
\* is answered 401 and is given no identity
C11_BadCredential401 ==
    (Verified /\ BadCredential(last.req) /\ last.req.idpUp /\ last.req.fail = {}) =>
        (last.out.status = 401 /\ ~last.out.authOk)

\* C12: every 429 of the chat endpoint, whichever check denied the request,
\* carries a retry hint of at least one second, and its Retry-After header is
\* that same number
C12_RetryAfterPositive ==
    last.out.status = 429 =>
        /\ last.out.reason \in {"user_burst", "ip_burst", "daily_limit"}
        /\ last.out.retryAfter \in Nat
        /\ last.out.retryAfter >= 1
        /\ last.out.retryHeader = last.out.retryAfter

\* a request has been denied by the daily check
C12_WitnessDaily == last.out.status = 429 /\ last.out.reason = "daily_limit"

\* a request has been denied by the address check, late in its window
C12_Witness ==
    /\ last.out.status = 429
    /\ last.out.reason = "ip_burst"
    /\ last.out.retryAfter \in 1..(BurstWindow - 1)

\* C13: the handler of an admitted request whose provider never answers does
\* not stay suspended: the call is abandoned and the request is answered with a
\* provider error that carries no text
C13_ProviderTimeout ==
    (last.out.providerCalled /\ last.req.provider = "hang") =>
        (last.out.status \in 500..599 /\ last.out.text = "")

\* C14: while AI_ENABLED is not exactly "true", every chat request is answered
\* 503 before anything else happens: the store is left as it was, no store
\* call is made (so none can fail), and neither the identity provider nor a
\* provider is called
C14_KillSwitch ==
    [][(aiEnabled # "true" /\ last' # last /\ last'.req.path = "/api/chat") =>
          /\ last'.out.status = 503
          /\ ~last'.out.threw
          /\ kv' = kv
          /\ ~last'.out.cacheHit
          /\ ~last'.out.idpCalled
          /\ last'.out.reached = ""
          /\ ~last'.out.providerCalled]_vars

\* with AI_ENABLED = "TRUE", a request during which every store call would
\* fail has been answered 503
C14_Witness ==
    /\ aiEnabled = "TRUE"
    /\ last.req.fail = Sites
    /\ last.out.status = 503

\* the bodies the contract calls malformed: not JSON, no messages, no message
\* with non-blank string content, a last normalized message that is not the
\* user's, or a model that is none of the five
Malformed(body) ==
    \/ ~body.json
    \/ body.messages = <<>>
    \/ \A i \in 1..Len(body.messages) :
          ~body.messages[i].isString \/ trim(body.messages[i].content) = <<>>
    \/ body.messages[Len(body.messages)].role = "assistant"
    \/ body.model \notin FREE_MODELS \cup PAID_MODELS

\* C15: an authenticated, admitted chat request whose body is malformed (and
\* is neither oversized nor for a locked model) is answered 400 and makes no
\* provider call
C15_Malformed400 ==
    (/\ last.req.path = "/api/chat"
     /\ last.out.authOk /\ last.out.limitsOk
     /\ last.req.body.size <= MaxBody
     /\ Malformed(last.req.body))
    => (last.out.status = 400 /\ ~last.out.providerCalled)

\* C16: a request that reached the provider made exactly one provider call,
\* and when that call came back with a non-success status or with no
\* generated text the response is an error that carries no answer text
C16_ProviderFailureSurfaced ==
    last.out.providerCalled
    => (/\ last.out.providerCalls = 1
        /\ last.req.provider \in {"http_error", "no_text"}
           => (last.out.status \notin {0, 200} /\ last.out.text = ""))

\* the window start a counter record holds
StoredStart(store, key) == Number(Split(store[key].val, "|")[2])

\* C17: a request whose bumpCounter reads an unexpired user-burst record that
\* began at least one window length ago writes a record that begins a fresh
\* window: count 1, window start now
C17_FreshWindow ==
    [][\A u \in Users :
          (/\ last' # last
           /\ last'.out.authOk /\ last'.out.userId = u
           /\ last'.req.fail = {}
           /\ Has(kv, userBurstKey(u), now)
           /\ now - StoredStart(kv, userBurstKey(u)) >= BurstWindow * 1000)
          => kv'[userBurstKey(u)].val = counterRecord(1, now)]_vars

\* the counter keys of the model's users and address
CounterKeys ==
    {userBurstKey(u) : u \in Users} \cup {dayKey(u, now) : u \in Users}
    \cup {ipBurstKey("1.1.1.1")}

\* C18: while a counter key keeps its record, no step lowers the count the
\* store holds for it
C18_CountNeverDecreases ==
    [][\A k \in CounterKeys :
          (Has(kv, k, now) /\ Has(kv', k, now'))
          => StoredCount(kv', k, now') >= StoredCount(kv, k, now)]_vars

\* no call is between its get and its put, and at least one has run
Quiescent == race.step > 0 /\ \A c \in Calls : race.call[c].pc # "read"

Finished == {c \in Calls : race.call[c].pc = "done"}

\* the get of call c fell between the get and the put of another call
Collided(c) ==
    \E a \in Calls \ {c} :
        /\ race.call[a].readAt > 0
        /\ race.call[a].readAt < race.call[c].readAt
        /\ race.call[a].writeAt = 0 \/ race.call[a].writeAt > race.call[c].readAt

Collisions == Cardinality({c \in Finished : Collided(c)})

\* the increments missing from the stored count after the finished calls
Lost == race.base + Cardinality(Finished) - StoredCount(kv, RaceKey, now)

\* the bounds on what k calls return and leave in the store
RaceBounds ==
    LET n == race.base
        k == Cardinality(Finished)
    IN  /\ \A c \in Finished : race.call[c].count \in (n + 1)..(n + k)
        /\ StoredCount(kv, RaceKey, now) \in (n + 1)..(n + k)
        /\ Collisions = 0 => StoredCount(kv, RaceKey, now) = n + k

\* C19 as stated: k calls from a stored count N return and leave counts from
\* N+1 to N+k, leave exactly N+k when no get falls between another call's get
\* and put, and lose exactly one increment for each get that does
C19_OneLostPerCollision ==
    Quiescent => (RaceBounds /\ Lost = Collisions)

\* C19, amended: k calls from a stored count N return and leave counts from
\* N+1 to N+k, leave exactly N+k when no get falls between another call's get
\* and put, and otherwise lose at least one increment and at most one for each
\* get that does
C19_LostAtMostCollisions ==
    Quiescent => (/\ RaceBounds
                  /\ Lost <= Collisions
                  /\ Collisions > 0 => Lost >= 1)

C19_Witness ==
    /\ Quiescent
    /\ race.base > 0
    /\ Cardinality(Finished) = 3
    /\ Collisions = 2
    /\ Lost = 1

\* key k holds the same record, or none, in both stores
SameAt(s1, s2, k) ==
    /\ k \in DOMAIN s1 <=> k \in DOMAIN s2
    /\ k \in DOMAIN s1 => s1[k] = s2[k]

\* the reason of the first check that the stored counts make fail
FirstFailing(store, userId, ip, t) ==
    IF StoredCount(store, userBurstKey(userId), t) + 1 > UserBurstLimit THEN "user_burst"
    ELSE IF StoredCount(store, ipBurstKey(ip), t) + 1 > IpBurstLimit THEN "ip_burst"
    ELSE "daily_limit"

\* C20: a denial reports the first failing check in the order user burst, IP
\* burst, daily; a user_burst denial leaves the IP-burst and the daily counter
\* as they were, and an ip_burst denial leaves the daily counter as it was
C20_FirstFailingWins ==
    [][(last' # last /\ last'.out.status = 429)
       => LET u == last'.out.userId
              ip == getClientIp(last'.req)
          IN  /\ last'.req.fail = {}
                 => last'.out.reason = FirstFailing(kv, u, ip, now)
              /\ last'.out.reason = "user_burst"
                 => (SameAt(kv, kv', ipBurstKey(ip)) /\ SameAt(kv, kv', dayKey(u, now)))
              /\ last'.out.reason = "ip_burst"
                 => SameAt(kv, kv', dayKey(u, now))]_vars

\* a user_burst denial at a moment when the IP-burst check would fail too
C20_Witness ==
    /\ last.out.status = 429
    /\ last.out.reason = "user_burst"
    /\ StoredCount(kv, ipBurstKey(getClientIp(last.req)), now) >= IpBurstLimit

\* the keys of the token cache in a store
TokKeys(store) == {k \in DOMAIN store : Head(k) = "tok:"}

\* C21: a verification served from the cache calls no identity provider and
\* writes nothing to the cache; one that misses calls the identity provider
\* and writes the credential's cache entry, for 3600 s, when the credential
\* verifies, and writes none when it does not; every cache entry records the
\* configured client ID as its audience
C21_CacheDiscipline ==
    [][(/\ last' # last
        /\ last'.out.stage \notin {"kill", "length"}
        /\ bearerToken(last'.req.authz) # <<>>
        /\ ~(last'.out.threw /\ last'.out.stage = "auth"))
       => LET key == <<"tok:">> \o hashShort(bearerToken(last'.req.authz))
              others == (TokKeys(kv) \cup TokKeys(kv')) \ {key}
          IN  /\ \A k \in others : SameAt(kv, kv', k)
              /\ last'.out.cacheHit
                 => (~last'.out.idpCalled /\ SameAt(kv, kv', key))
              /\ (~last'.out.cacheHit /\ last'.out.authOk)
                 => (/\ last'.out.idpCalled
                     /\ key \in DOMAIN kv'
                     /\ kv'[key].exp = now + TokenTtl * 1000
                     /\ kv'[key].val.sub = last'.out.userId)
              /\ (~last'.out.cacheHit /\ ~last'.out.authOk)
                 => (last'.out.idpCalled /\ SameAt(kv, kv', key))
              /\ \A k \in TokKeys(kv') : kv'[k].val.aud = GOOGLE_CLIENT_ID]_vars

\* a request served from the token cache
C21_Witness ==
    /\ last.out.cacheHit
    /\ last.out.authOk
    /\ ~last.out.idpCalled
    /\ TokKeys(kv) # {}

\* the j-th smallest element of a set of numbers
NthOf(S, j) == CHOOSE i \in S : Cardinality({x \in S : x <= i}) = j

\* the raw messages the normalisation keeps
KeptIndexes(messages) ==
    {i \in 1..Len(messages) :
        messages[i].isString /\ \E c \in 1..Len(messages[i].content) :
                                    messages[i].content[c] # " "}

\* str is the beginning of text once the spaces before text are dropped
IsClampOf(str, text) ==
    \E a \in 0..Len(text) :
        /\ \A c \in 1..a : text[c] = " "
        /\ Len(str) <= Len(text) - a
        /\ str = SubSeq(text, a + 1, a + Len(str))

\* C22: every message handed to a provider adapter has role user or assistant
\* and a non-empty content of at most 8000 characters that neither begins nor
\* ends with white space, and the messages are in the order of the raw
\* messages they came from
C22_MessagesNormalized ==
    LET raw == last.req.body.messages
        passed == last.out.passed
        kept == KeptIndexes(raw)
    IN  passed # <<>>
        => /\ Len(passed) = Cardinality(kept)
           /\ \A j \in 1..Len(passed) :
                 /\ passed[j].role \in {"user", "assistant"}
                 /\ passed[j].role = "assistant" <=> raw[NthOf(kept, j)].role = "assistant"
                 /\ IsClampOf(passed[j].content, raw[NthOf(kept, j)].content)
                 /\ Len(passed[j].content) \in 1..MaxContent
                 /\ Head(passed[j].content) # " "
                 /\ passed[j].content[Len(passed[j].content)] # " "

\* the contents of messages s to e joined by blank lines
RECURSIVE JoinRun(_, _, _)
JoinRun(messages, s, e) ==
    IF s = e THEN messages[s].content
    ELSE messages[s].content \o <<"\n", "\n">> \o JoinRun(messages, s + 1, e)

\* the positions at which a run of same-role messages begins
RunStarts(messages) ==
    {i \in 1..Len(messages) : i = 1 \/ messages[i].role # messages[i - 1].role}

\* C23: the list handlePerplexity sends after its system message has no two
\* adjacent messages of one role; its i-th message has the role of the i-th
\* maximal run of same-role messages of the normalized list and that run's
\* contents joined, in order, by a blank line
C23_PerplexityAlternates ==
    LET passed == last.out.passed
        sent == last.out.sent
        starts == RunStarts(passed)
    IN  (last.req.body.model = "perplexity" /\ last.out.providerCalled)
        => /\ Len(sent) = Cardinality(starts)
           /\ \A j \in 1..(Len(sent) - 1) : sent[j].role # sent[j + 1].role
           /\ \A j \in 1..Len(sent) :
                 LET s == NthOf(starts, j)
                     e == IF j = Len(sent) THEN Len(passed) ELSE NthOf(starts, j + 1) - 1
                 IN  /\ sent[j].role = passed[s].role
                     /\ sent[j].content = JoinRun(passed, s, e)

\* user a, user b, assistant c, user d was sent as user "a\n\nb", assistant
\* c, user d
C23_Witness ==
    /\ last.req.body.model = "perplexity"
    /\ last.out.providerCalled
    /\ Len(last.out.passed) = 4
    /\ last.out.sent = <<[role |-> "user", content |-> <<"a", "\n", "\n", "b">>],
                         [role |-> "assistant", content |-> <<"c">>],
                         [role |-> "user", content |-> <<"d">>]>>

\* the record of key in store2 is what one bumpCounter call at time t makes
\* of the one in store: count one higher, same window start, expiring a
\* whole burst window after t
Renewed(store, store2, key, t) ==
    /\ key \in DOMAIN store2
    /\ store2[key].val = IF Has(store, key, t)
                         THEN counterRecord(StoredCount(store, key, t) + 1,
                                            StoredStart(store, key))
                         ELSE counterRecord(1, t)
    /\ store2[key].exp = t + BurstWindow * 1000

\* C26: every request that the store serves renews its user's burst record
\* (count one higher, same window start, expiration 10 s after the request),
\* denied or not, and the address's burst record unless the user check denied
\* it; a user's burst record is evicted only 10 s after the user's last
\* request; from the 6th on, every request of a streak of requests less than
\* 10 s apart is denied with user_burst
C26_BurstNeverRests ==
    [][\A u \in Users :
          LET key == userBurstKey(u)
              mine == /\ last' # last
                      /\ last'.out.authOk /\ last'.out.userId = u
                      /\ last'.req.fail = {}
          IN  /\ mine => Renewed(kv, kv', key, now)
              /\ (mine /\ last'.out.reason # "user_burst")
                 => Renewed(kv, kv', ipBurstKey(getClientIp(last'.req)), now)
              /\ (mine /\ seen'[u].n > UserBurstLimit)
                 => (last'.out.status = 429 /\ last'.out.reason = "user_burst")
              /\ (key \in DOMAIN kv /\ key \notin DOMAIN kv')
                 => now' >= seen[u].at + BurstWindow * 1000]_vars

\* the seventh request of a streak, 10 s after the first, is denied
C26_Witness ==
    \E u \in Users :
        /\ last.out.userId = u
        /\ seen[u].n = UserBurstLimit + 2
        /\ seen[u].at = now
        /\ now >= BurstWindow * 1000
        /\ last.out.status = 429
        /\ last.out.reason = "user_burst"

\* C27: a request whose read of the user-burst counter fails while the write
\* succeeds leaves the record a first request would leave (count 1, window
\* start now) and passes the user-burst check, whatever count was stored
C27_ReadFailureForgets ==
    [][(/\ last' # last
        /\ last'.out.authOk
        /\ "uGet" \in last'.req.fail /\ "uPut" \notin last'.req.fail)
       => LET key == userBurstKey(last'.out.userId)
          IN  /\ key \in DOMAIN kv'
              /\ kv'[key] = [val |-> counterRecord(1, now),
                             exp |-> now + BurstWindow * 1000]
              /\ last'.out.reason # "user_burst"
              /\ last'.out.reached # "user"]_vars

\* a request answered while the address's counter shows the six requests of
\* the window and the user's counter has been set back to one
C27_Witness ==
    /\ last.req.fail = {"uGet"}
    /\ last.out.status = 200
    /\ StoredCount(kv, userBurstKey(last.out.userId), now) = 1
    /\ StoredCount(kv, ipBurstKey(getClientIp(last.req)), now) > UserBurstLimit

\* C29: a verification served from the cache leaves the cache entry and its
\* expiration as they were, and happens less than 3600 s after the last
\* verification of the user's credential by the identity provider, which set
\* the entry's expiration to 3600 s
C29_CacheNotExtended ==
    [][\A u \in Users :
          (/\ last' # last
           /\ last'.out.authOk /\ last'.out.userId = u)
          => LET key == <<"tok:">> \o hashShort(bearerToken(last'.req.authz))
             IN  /\ last'.out.cacheHit
                    => (/\ SameAt(kv, kv', key)
                        /\ seen[u].verifiedAt >= 0
                        /\ now < seen[u].verifiedAt + 3600 * 1000)
                 /\ ~last'.out.cacheHit
                    => kv'[key].exp = now + 3600 * 1000]_vars

\* a credential answered 200 from the cache after its own exp has passed
C29_Witness ==
    /\ last.out.cacheHit
    /\ last.out.status = 200
    /\ ExpiresAt(bearerToken(last.req.authz)) # -1
    /\ seen[last.out.userId].at >= ExpiresAt(bearerToken(last.req.authz))
    /\ seen[last.out.userId].at = now

\* C25: a chat request of index.js denied by enforceRateLimit is told to
\* retry after R seconds with 1 <= R <= 600, the Retry-After header says the
\* same, and the next request of that caller, sent R seconds or more after
\* the denial, falls in a later bucket of 600 s and is not denied
C25_RetryAfterHonest ==
    [][/\ (last'.out.stage = "site" /\ last'.out.status = 429)
            => /\ last'.out.retryAfter \in 1..600
               /\ last'.out.retryHeader = last'.out.retryAfter
       /\ (ix.deniedAt >= 0 /\ ix' # ix /\ last'.waited = "rate")
            => /\ now \div 600000 > ix.deniedAt \div 600000
               /\ last'.out.status # 429
               /\ last'.out.limitsOk]_vars

C25_Witness ==
    /\ last.out.stage = "site"
    /\ last.waited = "rate"
    /\ last.out.status = 200
    /\ now % 1000 # 0

\* C28: with no FRICTION_KV bound, enforceRateLimit admits every request and
\* stores nothing: no request to the chat or the appointment endpoint is
\* answered 429, however many came before it in the same 600 s
C28_UnboundNoLimit ==
    ~ix.bound =>
        /\ kv = << >>
        /\ last.out.status # 429
        /\ (last.out.stage = "site" /\ last.out.authOk
            /\ last.out.status \notin {400, 403}) => last.out.limitsOk

C28_Witness ==
    /\ ~ix.bound
    /\ ix.chats = 61
    /\ last.req.path = "/api/appointments/extract"
    /\ last.nth = 16
    /\ last.out.status = 200

\* no handler of index.js stands between two of its awaits
SiteQuiet == \A j \in Jobs : ix.job[j].pc \in {"idle", "done"}

\* the day's analytics record, as logAnalytics would read it
Today == logRead(kv, now)

\* C24: once every register call has returned, the signups of the day's
\* analytics are as many as the distinct emails that the calls added to
\* users:list
C24_SignupPerNewEmail ==
    SiteQuiet => Today.signups = Cardinality(ix.listed)

RECURSIVE SumOf(_)
SumOf(counts) ==
    IF DOMAIN counts = {} THEN 0
    ELSE LET k == CHOOSE x \in DOMAIN counts : TRUE
         IN  counts[k] + SumOf([x \in DOMAIN counts \ {k} |-> counts[x]])

\* C30: in the stored analytics record of the day, messages is the sum of
\* the per-model counts and the sum of the per-user counts, whatever
\* handlers have run or are running
C30_TotalsAgree ==
    /\ Today.messages = SumOf(Today.models)
    /\ Today.messages = SumOf(Today.users)

====
